---- MODULE Spec2Model ----
(***************************************************************************)
(* A model of lzokay-native: the LZO1X encoder of src/src/compress.rs and  *)
(* the streaming decoder of src/src/decompress.rs.                         *)
(*                                                                         *)
(* Memory is modelled by value.  A Vec / raw buffer is an "array": a       *)
(* record [fill, set] where set maps the indices written since the last    *)
(* whole-array fill to their values and every other index holds fill.      *)
(* A pointer into the input slice or into dst is a 0-based index.          *)
(***************************************************************************)
EXTENDS Integers, Sequences, FiniteSets, TLC

\* ------------------------------------------------------------------ bounds

\* Inputs are all byte strings over Alphabet2 up to MaxLen2 and over
\* Alphabet3 up to MaxLen3, plus the long inputs of LongInputs.
MaxLen2 == 10
MaxLen3 == 5

Alphabet2 == {0, 65}
Alphabet3 == {0, 65, 66}

\* ------------------------------------------------------------------ constants (util.rs)

M1_MAX_OFFSET == 1024
M2_MAX_OFFSET == 2048
M3_MAX_OFFSET == 16384
M2_MIN_LEN == 3
M2_MAX_LEN == 8
M3_MAX_LEN == 33
M4_MAX_LEN == 9
M1_MARKER == 0
M3_MARKER == 32
M4_MARKER == 16

\* 0xbfff: bytes of history kept behind wind_b; 0x800: the lookahead.
WindowMax == 49151
LookaheadMax == 2048
\* 0xbfff + 0x800: the size of the circular window.
W == WindowMax + LookaheadMax
\* The chain sentinel 65535_u16.
NoPos == 65535

\* ------------------------------------------------------------------ bit operations

RECURSIVE BitAnd(_, _)
BitAnd(a, b) ==
  IF a = 0 \/ b = 0 THEN 0
  ELSE (IF a % 2 = 1 /\ b % 2 = 1 THEN 1 ELSE 0) + 2 * BitAnd(a \div 2, b \div 2)

RECURSIVE BitOr(_, _)
BitOr(a, b) ==
  IF a = 0 THEN b
  ELSE IF b = 0 THEN a
  ELSE (IF a % 2 = 1 \/ b % 2 = 1 THEN 1 ELSE 0) + 2 * BitOr(a \div 2, b \div 2)

RECURSIVE BitXor(_, _)
BitXor(a, b) ==
  IF a = 0 THEN b
  ELSE IF b = 0 THEN a
  ELSE ((a + b) % 2) + 2 * BitXor(a \div 2, b \div 2)

\* `x as u8`
U8(x) == x % 256
\* u16 wrapping_add(1) / wrapping_sub(1)
U16Inc(x) == (x + 1) % 65536
U16Dec(x) == (x + 65535) % 65536

\* ------------------------------------------------------------------ arrays

ArrFill(v) == [fill |-> v, set |-> << >>]
Rd(a, i) == IF i \in DOMAIN a.set THEN a.set[i] ELSE a.fill
Wr(a, i, v) ==
  [a EXCEPT !.set = IF i \in DOMAIN @ THEN [@ EXCEPT ![i] = v] ELSE @ @@ (i :> v)]

\* ------------------------------------------------------------------ compress.rs

\* A faulty compress_worst_size, without the room for the opcodes: C3 fails
\* with it.
compress_worst_size_bare(uncompressed_size) == uncompressed_size

compress_worst_size(uncompressed_size) ==
  uncompressed_size + uncompressed_size \div 16 + 64 + 3

\* A faulty std_mismatch, which compares one byte beyond last1.
std_mismatch_past(buf, first1, n, first2) ==
  LET Differ(k) == Rd(buf, first1 + k) # Rd(buf, first2 + k)
  IN  CHOOSE k \in 0..(n + 1) : /\ (k = n + 1 \/ Differ(k))
                                /\ \A j \in 0..(k - 1) : ~Differ(j)

\* std_mismatch: the number of leading bytes on which buf[first1..] and
\* buf[first2..] agree, at most n (= last1 - first1), which is
\* mismatch.offset_from(ref_ptr).  Stated as the least k at which the loop stops.
std_mismatch(buf, first1, n, first2) ==
  LET Differ(k) == Rd(buf, first1 + k) # Rd(buf, first2 + k)
  IN  CHOOSE k \in 0..n : /\ (k = n \/ Differ(k))
                          /\ \A j \in 0..(k - 1) : ~Differ(j)

\* State::new, with the source slice held by value in src.
State_new ==
  [src |-> << >>, src_end |-> 0, inp |-> 0, wind_sz |-> 0, wind_b |-> 0, wind_e |-> 0,
   cycle1_countdown |-> 0, bufp |-> 0, buf_sz |-> 0]

\* A faulty get_byte that writes the byte at wind_e alone, not its copy above
\* W.
get_byte_no_mirror(s, buf) ==
  LET exhausted == s.inp >= s.src_end
      byte == IF exhausted THEN 0 ELSE s.src[s.inp + 1]
      e1 == s.wind_e + 1
      w1 == s.wind_b + 1
  IN  [s |-> [s EXCEPT !.wind_sz = IF exhausted /\ @ > 0 THEN @ - 1 ELSE @,
                       !.inp = IF exhausted THEN @ ELSE @ + 1,
                       !.wind_e = IF e1 = W THEN 0 ELSE e1,
                       !.wind_b = IF w1 = W THEN 0 ELSE w1],
       buf |-> Wr(buf, s.wind_e, byte)]

\* A faulty get_byte that lets wind_e run past W.
get_byte_no_wrap(s, buf) ==
  LET exhausted == s.inp >= s.src_end
      byte == IF exhausted THEN 0 ELSE s.src[s.inp + 1]
      b1 == Wr(buf, s.wind_e, byte)
      b2 == IF s.wind_e < LookaheadMax THEN Wr(b1, W + s.wind_e, byte) ELSE b1
      w1 == s.wind_b + 1
  IN  [s |-> [s EXCEPT !.wind_sz = IF exhausted /\ @ > 0 THEN @ - 1 ELSE @,
                       !.inp = IF exhausted THEN @ ELSE @ + 1,
                       !.wind_e = @ + 1,
                       !.wind_b = IF w1 = W THEN 0 ELSE w1],
       buf |-> b2]

\* State::get_byte: [s, buf] afterwards.
get_byte(s, buf) ==
  LET exhausted == s.inp >= s.src_end
      byte == IF exhausted THEN 0 ELSE s.src[s.inp + 1]
      b1 == Wr(buf, s.wind_e, byte)
      b2 == IF s.wind_e < LookaheadMax THEN Wr(b1, W + s.wind_e, byte) ELSE b1
      e1 == s.wind_e + 1
      w1 == s.wind_b + 1
  IN  [s |-> [s EXCEPT !.wind_sz = IF exhausted /\ @ > 0 THEN @ - 1 ELSE @,
                       !.inp = IF exhausted THEN @ ELSE @ + 1,
                       !.wind_e = IF e1 = W THEN 0 ELSE e1,
                       !.wind_b = IF w1 = W THEN 0 ELSE w1],
       buf |-> b2]

\* A faulty pos2off, without the case wind_b > pos: C1 fails with it.
pos2off_wrapped(s, pos) == W - (pos - s.wind_b)

\* State::pos2off
pos2off(s, pos) ==
  IF s.wind_b > pos THEN s.wind_b - pos ELSE W - (pos - s.wind_b)

\* Match3::make_key.  The u32 product wraps at 2^32, and bits 5..18 of it are
\* taken; they are the same bits of the product taken modulo 2^19, which is
\* computed here by halves so that no intermediate value exceeds 31 bits.
Match3_make_key(buf, pos) ==
  LET data_0 == Rd(buf, pos)
      data_1 == Rd(buf, pos + 1)
      data_2 == Rd(buf, pos + 2)
      x == BitXor(BitXor(data_0 * 32, data_1) * 32, data_2)
      lo == (x * 95) % 524288              \* 0x9f5f = 159 * 256 + 95
      hi == (((x * 159) % 2048) * 256) % 524288
      prod == (lo + hi) % 524288
  IN  (prod \div 32) % 16384

Match3_get_head(m3, key) ==
  IF Rd(m3.chain_sz, key) = 0 THEN NoPos ELSE Rd(m3.head, key)

\* A faulty Match3::init that resets nothing: C5 fails with it.
Match3_init_keep(m3) == m3

Match3_init(m3) == [m3 EXCEPT !.chain_sz = ArrFill(0)]

Match3_remove(m3, pos, buf) ==
  LET key == Match3_make_key(buf, pos)
  IN  [m3 EXCEPT !.chain_sz = Wr(@, key, U16Dec(Rd(@, key)))]

\* Match3::advance: [m3, match_pos, match_count] afterwards.
Match3_advance(m3, s, buf) ==
  LET key == Match3_make_key(buf, s.wind_b)
      h == Match3_get_head(m3, key)
      tmp == Rd(m3.chain_sz, key)
  IN  [m3 |-> [m3 EXCEPT !.chain = Wr(@, s.wind_b, h),
                         !.chain_sz = Wr(@, key, U16Inc(tmp)),
                         !.head = Wr(@, key, s.wind_b % 65536)],
       match_pos |-> h,
       match_count |-> IF tmp > LookaheadMax THEN LookaheadMax ELSE tmp]

Match3_skip_advance(m3, s, buf) ==
  LET key == Match3_make_key(buf, s.wind_b)
      h == Match3_get_head(m3, key)
  IN  [m3 EXCEPT !.chain = Wr(@, s.wind_b, h),
                 !.head = Wr(@, key, s.wind_b % 65536),
                 !.best_len = Wr(@, s.wind_b, LookaheadMax + 1),
                 !.chain_sz = Wr(@, key, U16Inc(Rd(@, key)))]

Match2_make_key(buf, pos) == BitXor(Rd(buf, pos), Rd(buf, pos + 1) * 256)

Match2_init(m2) == [m2 EXCEPT !.head = ArrFill(NoPos)]

Match2_add(m2, pos, buf) ==
  [m2 EXCEPT !.head = Wr(@, Match2_make_key(buf, pos), pos)]

\* A faulty Match2::remove that clears the head whatever it holds.
Match2_remove_always(m2, pos, buf) ==
  [m2 EXCEPT !.head = Wr(@, Match2_make_key(buf, pos), NoPos)]

Match2_remove(m2, pos, buf) ==
  LET key == Match2_make_key(buf, pos)
  IN  IF Rd(m2.head, key) = pos THEN [m2 EXCEPT !.head = Wr(@, key, NoPos)] ELSE m2

\* Match2::search: [found, lb_pos, lb_len, best_pos] afterwards.
Match2_search(m2, s, lb_pos, lb_len, best_pos, buf) ==
  LET pos == Rd(m2.head, Match2_make_key(buf, s.wind_b))
  IN  IF pos = NoPos
      THEN [found |-> FALSE, lb_pos |-> lb_pos, lb_len |-> lb_len, best_pos |-> best_pos]
      ELSE [found |-> TRUE,
            lb_pos |-> IF lb_len < 2 THEN pos ELSE lb_pos,
            lb_len |-> IF lb_len < 2 THEN 2 ELSE lb_len,
            best_pos |-> IF best_pos[2] = 0 THEN [best_pos EXCEPT ![2] = pos + 1]
                         ELSE best_pos]

Dict_new ==
  [match3 |-> [head |-> ArrFill(0), chain_sz |-> ArrFill(0), chain |-> ArrFill(0),
               best_len |-> ArrFill(0)],
   match2 |-> [head |-> ArrFill(0)],
   buffer |-> ArrFill(0)]

\* write_bytes(buffer + at, 0, 3)
ZeroFill3(buf, at) == Wr(Wr(Wr(buf, at, 0), at + 1, 0), at + 2, 0)

\* copy_nonoverlapping(src, buffer, n)
CopyIn(buf, src, n) ==
  [buf EXCEPT !.set = [i \in (DOMAIN @) \cup (0..(n - 1)) |->
                         IF i < n THEN src[i + 1] ELSE @[i]]]

\* Dict::init: [d, s] afterwards.
Dict_init(d, s, src) ==
  LET src_size == Len(src)
      wind_sz == IF src_size > LookaheadMax THEN LookaheadMax ELSE src_size
      b1 == CopyIn(d.buffer, src, wind_sz)
      b2 == IF wind_sz < 3 THEN ZeroFill3(b1, 0 + wind_sz) ELSE b1
  IN  [d |-> [match3 |-> Match3_init(d.match3), match2 |-> Match2_init(d.match2),
              buffer |-> b2],
       s |-> [s EXCEPT !.cycle1_countdown = WindowMax,
                       !.src = src, !.src_end = src_size, !.inp = wind_sz,
                       !.wind_sz = wind_sz, !.wind_b = 0,
                       !.wind_e = IF wind_sz = W THEN 0 ELSE wind_sz]]

\* A faulty reset_next_input_entry that counts down and never removes.
reset_next_input_entry_keep(d, s) ==
  [d |-> d, s |-> [s EXCEPT !.cycle1_countdown = IF @ = 0 THEN 0 ELSE @ - 1]]

\* Dict::reset_next_input_entry: [d, s] afterwards.
reset_next_input_entry(d, s) ==
  IF s.cycle1_countdown = 0
  THEN [d |-> [d EXCEPT !.match3 = Match3_remove(@, s.wind_e, d.buffer),
                        !.match2 = Match2_remove(@, s.wind_e, d.buffer)],
        s |-> s]
  ELSE [d |-> d, s |-> [s EXCEPT !.cycle1_countdown = @ - 1]]

\* One round of the skip loop of Dict::advance.
SkipStep(d, s) ==
  LET Got(r, g) ==
        [d |-> [match3 |-> Match3_skip_advance(r.d.match3, r.s, r.d.buffer),
                match2 |-> Match2_add(r.d.match2, r.s.wind_b % 65536, r.d.buffer),
                buffer |-> g.buf],
         s |-> g.s]
      Reset(r) == Got(r, get_byte(r.s, r.d.buffer))
  IN  Reset(reset_next_input_entry(d, s))

\* n rounds of the skip loop from r = [d, s].
RECURSIVE SkipLoop(_, _)
\* (wind_b stays below W, get_byte wraps it: with the test on r.s each round
\* is computed before the next is entered.)
SkipLoop(r, n) ==
  IF n <= 0 \/ r.s.wind_b >= W THEN r ELSE SkipLoop(SkipStep(r.d, r.s), n - 1)

\* The chain walk of Dict::advance, from round i_0 on:
\* [lb_len, lb_pos, best_pos, fault] afterwards.  fault: match_pos is no index
\* of chain / best_len (the Vec index panics).
RECURSIVE ChainWalk(_, _, _, _, _, _, _, _)
ChainWalk(d, s, i_0, match_count, match_pos, lb_len, lb_pos, best_pos) ==
  IF i_0 >= match_count
  THEN [lb_len |-> lb_len, lb_pos |-> lb_pos, best_pos |-> best_pos, fault |-> FALSE]
  ELSE IF match_pos >= W
  THEN [lb_len |-> lb_len, lb_pos |-> lb_pos, best_pos |-> best_pos, fault |-> TRUE]
  ELSE
    LET match_len == std_mismatch(d.buffer, s.wind_b, s.wind_sz, match_pos)
        bp1 == IF match_len >= 2 /\ match_len < 34 /\ best_pos[match_len] = 0
               THEN [best_pos EXCEPT ![match_len] = match_pos + 1]
               ELSE best_pos
        better == match_len >= 2 /\ match_len > lb_len
        len1 == IF better THEN match_len ELSE lb_len
        pos1 == IF better THEN match_pos ELSE lb_pos
        brk == better /\ (match_len = s.wind_sz
                          \/ match_len > Rd(d.match3.best_len, match_pos))
    IN  IF brk
        THEN [lb_len |-> len1, lb_pos |-> pos1, best_pos |-> bp1, fault |-> FALSE]
        ELSE ChainWalk(d, s, i_0 + 1, match_count, Rd(d.match3.chain, match_pos),
                       len1, pos1, bp1)

\* Dict::advance, the search for the longest match at wind_b, Match2 first and
\* then the chain of Match3: [lb_len, lb_pos, best_pos, fault] afterwards.
advance_matches(d1, s1, match_count, match_pos, m2) ==
  IF m2.found /\ s1.wind_sz >= 3
  THEN ChainWalk(d1, s1, 0, match_count, match_pos, m2.lb_len, m2.lb_pos, m2.best_pos)
  ELSE [lb_len |-> m2.lb_len, lb_pos |-> m2.lb_pos, best_pos |-> m2.best_pos,
        fault |-> FALSE]

\* A faulty record of the search, which takes best_pos[i] for the position
\* (it is the position plus one).
advance_record_biased(d1, s1, best_off0, walk) ==
  IF 1 >= s1.wind_sz
  THEN [d |-> [d1 EXCEPT !.match3.best_len = Wr(@, s1.wind_b, LookaheadMax + 1)],
        lb_off |-> 0, lb_len |-> 1, best_off |-> best_off0, fault |-> FALSE]
  ELSE [d |-> [d1 EXCEPT !.match3.best_len = Wr(@, s1.wind_b, walk.lb_len % 65536)],
        lb_off |-> IF walk.lb_len > 1 THEN pos2off(s1, walk.lb_pos) ELSE 0,
        lb_len |-> walk.lb_len,
        best_off |-> [i \in 0..33 |->
                       IF i < 2 THEN best_off0[i]
                       ELSE IF walk.best_pos[i] > 0
                            THEN pos2off(s1, walk.best_pos[i]) ELSE 0],
        fault |-> walk.fault]

\* Dict::advance, what it records of the search (`if *lb_len >= s.wind_sz` and
\* its else branch): [d, lb_off, lb_len, best_off, fault] afterwards.
advance_record(d1, s1, best_off0, walk) ==
  IF 1 >= s1.wind_sz
  THEN [d |-> [d1 EXCEPT !.match3.best_len = Wr(@, s1.wind_b, LookaheadMax + 1)],
        lb_off |-> 0, lb_len |-> 1, best_off |-> best_off0, fault |-> FALSE]
  ELSE [d |-> [d1 EXCEPT !.match3.best_len = Wr(@, s1.wind_b, walk.lb_len % 65536)],
        lb_off |-> IF walk.lb_len > 1 THEN pos2off(s1, walk.lb_pos) ELSE 0,
        lb_len |-> walk.lb_len,
        best_off |-> [i \in 0..33 |->
                       IF i < 2 THEN best_off0[i]
                       ELSE IF walk.best_pos[i] > 0
                            THEN pos2off(s1, walk.best_pos[i] - 1) ELSE 0],
        fault |-> walk.fault]

\* A faulty end of Dict::advance, which takes bufp one byte ahead: wind_sz
\* before inp, not buf_sz.
advance_finish_ahead(d3, g, best_char, m) ==
  LET buf_sz == IF best_char < 0 THEN 0 ELSE g.s.wind_sz + 1
  IN  [d |-> [d3 EXCEPT !.buffer = g.buf],
       s |-> [g.s EXCEPT !.buf_sz = buf_sz, !.bufp = g.s.inp - g.s.wind_sz],
       lb_off |-> m.lb_off,
       lb_len |-> IF best_char < 0 THEN 0 ELSE m.lb_len,
       best_off |-> m.best_off,
       fault |-> m.fault]

\* Dict::advance, its end (`if best_char < 0` on), g being what get_byte left.
advance_finish(d3, g, best_char, m) ==
  LET buf_sz == IF best_char < 0 THEN 0 ELSE g.s.wind_sz + 1
  IN  [d |-> [d3 EXCEPT !.buffer = g.buf],
       s |-> [g.s EXCEPT !.buf_sz = buf_sz, !.bufp = g.s.inp - buf_sz],
       lb_off |-> m.lb_off,
       lb_len |-> IF best_char < 0 THEN 0 ELSE m.lb_len,
       best_off |-> m.best_off,
       fault |-> m.fault]

\* Dict::advance, `self.match2.add(..); s.get_byte(..)`, r being what
\* reset_next_input_entry left.
advance_input(r, best_char, m) ==
  advance_finish([r.d EXCEPT !.match2 = Match2_add(@, r.s.wind_b % 65536, r.d.buffer)],
                 get_byte(r.s, r.d.buffer), best_char, m)

\* Dict::advance from the Match2 search on, a3 being what Match3::advance left.
advance_found(d0, s1, best_off0, a3) ==
  LET d1 == [d0 EXCEPT !.match3 = a3.m3]
      best_char == IF s1.wind_sz = 0 THEN -1 ELSE Rd(d0.buffer, s1.wind_b)
      m2 == Match2_search(d0.match2, s1, 0, 1, [i \in 0..33 |-> 0], d0.buffer)
      m == advance_record(d1, s1, best_off0,
                          advance_matches(d1, s1, a3.match_count, a3.match_pos, m2))
  IN  advance_input(reset_next_input_entry(m.d, s1), best_char, m)

\* Dict::advance after its skip loop (from `*lb_len = 1` on):
\* [d, s, lb_off, lb_len, best_off, fault] afterwards.
advance_search(d0, s1, best_off0) ==
  advance_found(d0, s1, best_off0, Match3_advance(d0.match3, s1, d0.buffer))

\* Dict::advance
Dict_advance(d0, s0, lb_len0, best_off0, skip) ==
  LET Skipped(sk) == advance_search(sk.d, sk.s, best_off0)
  IN  Skipped(SkipLoop([d |-> d0, s |-> s0], IF skip THEN lb_len0 - 1 ELSE 0))

\* find_better_match: [lb_len, lb_off] afterwards.
find_better_match(best_off, lb_len, lb_off) ==
  IF lb_len <= M2_MIN_LEN \/ lb_off <= M2_MAX_OFFSET
  THEN [lb_len |-> lb_len, lb_off |-> lb_off]
  ELSE IF /\ lb_off > M2_MAX_OFFSET
          /\ lb_len >= M2_MIN_LEN + 1
          /\ lb_len <= M2_MAX_LEN + 1
          /\ best_off[lb_len - 1] # 0
          /\ best_off[lb_len - 1] <= M2_MAX_OFFSET
  THEN [lb_len |-> lb_len - 1, lb_off |-> best_off[lb_len - 1]]
  ELSE IF /\ lb_off > M3_MAX_OFFSET
          /\ lb_len >= M4_MAX_LEN + 1
          /\ lb_len <= M2_MAX_LEN + 2
          /\ best_off[lb_len - 2] # 0
          /\ best_off[lb_len] <= M2_MAX_OFFSET
  THEN [lb_len |-> lb_len - 2, lb_off |-> best_off[lb_len - 2]]
  ELSE IF /\ lb_off > M3_MAX_OFFSET
          /\ lb_len >= M4_MAX_LEN + 1
          /\ lb_len <= M3_MAX_LEN + 1
          /\ best_off[lb_len - 1] # 0
          /\ best_off[lb_len - 2] <= M3_MAX_OFFSET
  THEN [lb_len |-> lb_len - 1, lb_off |-> best_off[lb_len - 1]]
  ELSE [lb_len |-> lb_len, lb_off |-> lb_off]

\* A faulty length extension, which takes 255 off while 255 or more is left
\* and so ends a multiple of 255 with a zero byte.
RECURSIVE LenBytes_floor(_)
LenBytes_floor(l) == IF l >= 255 THEN <<0>> \o LenBytes_floor(l - 255) ELSE <<U8(l)>>

\* The bytes of `while l > 255 { *outp = 0; l -= 255 } *outp = l as u8`.
RECURSIVE LenBytes(_)
LenBytes(l) == IF l > 255 THEN <<0>> \o LenBytes(l - 255) ELSE <<U8(l)>>

\* What an emitter leaves: the bytes of dst written so far (outp = dst + Len(dst)),
\* err = "OutputOverrun" when a bounds check against outp_end failed, and
\* fault when it wrote outside dst.
Emit(dst, err, fault) == [dst |-> dst, err |-> err, fault |-> fault]

\* A faulty encode_literal_run, which carries a run of up to 3 bytes in the
\* last byte written and not in the one before it.
encode_literal_run_last(dst, dst_cap, src, lit_ptr, lit_len) ==
  LET outp == Len(dst)
      hdr ==
        IF outp = 0 /\ lit_len <= 238
        THEN IF outp + 1 > dst_cap THEN Emit(dst, "OutputOverrun", FALSE)
             ELSE Emit(dst \o <<U8(17 + lit_len)>>, "None", FALSE)
        ELSE IF lit_len <= 3
        THEN IF outp < 2 THEN Emit(dst, "None", TRUE)
             ELSE Emit([dst EXCEPT ![outp] = U8(BitOr(@, lit_len))], "None", FALSE)
        ELSE IF lit_len <= 18
        THEN IF outp + 1 > dst_cap THEN Emit(dst, "OutputOverrun", FALSE)
             ELSE Emit(dst \o <<U8(lit_len - 3)>>, "None", FALSE)
        ELSE IF outp + ((lit_len - 18) \div 255 + 2) > dst_cap
             THEN Emit(dst, "OutputOverrun", FALSE)
             ELSE Emit(dst \o <<0>> \o LenBytes(lit_len - 18), "None", FALSE)
  IN  IF hdr.err # "None" \/ hdr.fault THEN hdr
      ELSE IF Len(hdr.dst) + lit_len > dst_cap THEN Emit(hdr.dst, "OutputOverrun", FALSE)
      ELSE IF lit_ptr + lit_len > Len(src) THEN Emit(hdr.dst, "None", TRUE)
      ELSE Emit(hdr.dst \o SubSeq(src, lit_ptr + 1, lit_ptr + lit_len), "None", FALSE)

\* A faulty encode_literal_run, whose first opcode holds a run of less than
\* 238 bytes only.
encode_literal_run_below(dst, dst_cap, src, lit_ptr, lit_len) ==
  LET outp == Len(dst)
      hdr ==
        IF outp = 0 /\ lit_len < 238
        THEN IF outp + 1 > dst_cap THEN Emit(dst, "OutputOverrun", FALSE)
             ELSE Emit(dst \o <<U8(17 + lit_len)>>, "None", FALSE)
        ELSE IF lit_len <= 3
        THEN IF outp < 2 THEN Emit(dst, "None", TRUE)
             ELSE Emit([dst EXCEPT ![outp - 1] = U8(BitOr(@, lit_len))], "None", FALSE)
        ELSE IF lit_len <= 18
        THEN IF outp + 1 > dst_cap THEN Emit(dst, "OutputOverrun", FALSE)
             ELSE Emit(dst \o <<U8(lit_len - 3)>>, "None", FALSE)
        ELSE IF outp + ((lit_len - 18) \div 255 + 2) > dst_cap
             THEN Emit(dst, "OutputOverrun", FALSE)
             ELSE Emit(dst \o <<0>> \o LenBytes(lit_len - 18), "None", FALSE)
  IN  IF hdr.err # "None" \/ hdr.fault THEN hdr
      ELSE IF Len(hdr.dst) + lit_len > dst_cap THEN Emit(hdr.dst, "OutputOverrun", FALSE)
      ELSE IF lit_ptr + lit_len > Len(src) THEN Emit(hdr.dst, "None", TRUE)
      ELSE Emit(hdr.dst \o SubSeq(src, lit_ptr + 1, lit_ptr + lit_len), "None", FALSE)

\* encode_literal_run, with dst_cap = outp_end - dst.
encode_literal_run(dst, dst_cap, src, lit_ptr, lit_len) ==
  LET outp == Len(dst)
      hdr ==
        IF outp = 0 /\ lit_len <= 238
        THEN IF outp + 1 > dst_cap THEN Emit(dst, "OutputOverrun", FALSE)
             ELSE Emit(dst \o <<U8(17 + lit_len)>>, "None", FALSE)
        ELSE IF lit_len <= 3
        THEN IF outp < 2 THEN Emit(dst, "None", TRUE)
             ELSE Emit([dst EXCEPT ![outp - 1] = U8(BitOr(@, lit_len))], "None", FALSE)
        ELSE IF lit_len <= 18
        THEN IF outp + 1 > dst_cap THEN Emit(dst, "OutputOverrun", FALSE)
             ELSE Emit(dst \o <<U8(lit_len - 3)>>, "None", FALSE)
        ELSE IF outp + ((lit_len - 18) \div 255 + 2) > dst_cap
             THEN Emit(dst, "OutputOverrun", FALSE)
             ELSE Emit(dst \o <<0>> \o LenBytes(lit_len - 18), "None", FALSE)
  IN  IF hdr.err # "None" \/ hdr.fault THEN hdr
      ELSE IF Len(hdr.dst) + lit_len > dst_cap THEN Emit(hdr.dst, "OutputOverrun", FALSE)
      ELSE IF lit_ptr + lit_len > Len(src) THEN Emit(hdr.dst, "None", TRUE)
      ELSE Emit(hdr.dst \o SubSeq(src, lit_ptr + 1, lit_ptr + lit_len), "None", FALSE)

\* A faulty M3 / M4 tail, its two bytes swapped: C2 fails with it.
OffBytes_swapped(lb_off) == <<U8(lb_off \div 64), U8(lb_off * 4)>>

\* The M3 / M4 tail: `*outp = (lb_off << 2) as u8; *outp = (lb_off >> 6) as u8`.
OffBytes(lb_off) == <<U8(lb_off * 4), U8(lb_off \div 64)>>

\* encode_lookback_match
encode_lookback_match(dst, dst_cap, lb_len, lb_off, last_lit_len) ==
  LET outp == Len(dst)
  IN
  IF lb_len = 2
  THEN LET off == lb_off - 1
       IN  IF outp + 2 > dst_cap THEN Emit(dst, "OutputOverrun", FALSE)
           ELSE Emit(dst \o <<U8(BitOr(M1_MARKER, BitAnd(off, 3) * 4)), U8(off \div 4)>>,
                     "None", FALSE)
  ELSE IF lb_len <= M2_MAX_LEN /\ lb_off <= M2_MAX_OFFSET
  THEN LET off == lb_off - 1
       IN  IF outp + 2 > dst_cap THEN Emit(dst, "OutputOverrun", FALSE)
           ELSE Emit(dst \o <<U8(BitOr((lb_len - 1) * 32, BitAnd(off, 7) * 4)),
                              U8(off \div 8)>>, "None", FALSE)
  ELSE IF lb_len = M2_MIN_LEN /\ lb_off <= M1_MAX_OFFSET + M2_MAX_OFFSET
          /\ last_lit_len >= 4
  THEN LET off == lb_off - (1 + M2_MAX_OFFSET)
       IN  IF outp + 2 > dst_cap THEN Emit(dst, "OutputOverrun", FALSE)
           ELSE Emit(dst \o <<U8(BitOr(M1_MARKER, BitAnd(off, 3) * 4)), U8(off \div 4)>>,
                     "None", FALSE)
  ELSE IF lb_off <= M3_MAX_OFFSET
  THEN LET off == lb_off - 1
           op == IF lb_len <= M3_MAX_LEN
                 THEN IF outp + 1 > dst_cap THEN Emit(dst, "OutputOverrun", FALSE)
                      ELSE Emit(dst \o <<U8(BitOr(M3_MARKER, lb_len - 2))>>, "None", FALSE)
                 ELSE IF outp + ((lb_len - M3_MAX_LEN) \div 255 + 2) > dst_cap
                      THEN Emit(dst, "OutputOverrun", FALSE)
                      ELSE Emit(dst \o <<U8(M3_MARKER)>> \o LenBytes(lb_len - M3_MAX_LEN),
                                "None", FALSE)
       IN  IF op.err # "None" THEN op
           ELSE IF Len(op.dst) + 2 > dst_cap THEN Emit(op.dst, "OutputOverrun", FALSE)
           ELSE Emit(op.dst \o OffBytes(off), "None", FALSE)
  ELSE LET off == lb_off - 16384
           h == BitAnd(off, 16384) \div 2048
           op == IF lb_len <= M4_MAX_LEN
                 THEN IF outp + 1 > dst_cap THEN Emit(dst, "OutputOverrun", FALSE)
                      ELSE Emit(dst \o <<U8(BitOr(BitOr(M4_MARKER, h), lb_len - 2))>>,
                                "None", FALSE)
                 ELSE IF outp + ((lb_len - M4_MAX_LEN) \div 255 + 2) > dst_cap
                      THEN Emit(dst, "OutputOverrun", FALSE)
                      ELSE Emit(dst \o <<U8(BitOr(M4_MARKER, h))>>
                                    \o LenBytes(lb_len - M4_MAX_LEN), "None", FALSE)
       IN  IF op.err # "None" THEN op
           ELSE IF Len(op.dst) + 2 > dst_cap THEN Emit(op.dst, "OutputOverrun", FALSE)
           ELSE Emit(op.dst \o OffBytes(off), "None", FALSE)

\* ------------------------------------------------------------------ lzokay_compress_dict

\* The locals of lzokay_compress_dict up to the first test of the main loop:
\* [d, f], d the dictionary and f the frame.
compress_begin(src, init_dst_size, dict_storage) ==
  LET Frame(i, a) ==
        [d |-> a.d,
         f |-> [s |-> a.s, dst |-> << >>, dst_cap |-> init_dst_size,
                lit_len |-> 0, lit_ptr |-> i.s.inp,
                lb_off |-> a.lb_off, lb_len |-> a.lb_len, best_off |-> a.best_off,
                err |-> "None", fault |-> a.fault, skip_i |-> 0]]
      Begun(i) == Frame(i, Dict_advance(i.d, i.s, 0, [k \in 0..33 |-> 0], FALSE))
  IN  Begun(Dict_init(dict_storage, State_new, src))

\* A faulty rejection rule, without its test `lit_len >= 4` for a match of
\* length 2.
Rejected_no_long(f) ==
  \/ f.lb_len < 2
  \/ f.lb_len = 2 /\ (f.lb_off > M1_MAX_OFFSET \/ f.lit_len = 0)
  \/ f.lb_len = 2 /\ Len(f.dst) = 0
  \/ Len(f.dst) = 0 /\ f.lit_len = 0
  \/ f.lb_len = M2_MIN_LEN /\ f.lb_off > M1_MAX_OFFSET + M2_MAX_OFFSET /\ f.lit_len >= 4

\* The rejection rule at the top of the main loop: the lb_len it leaves.
Rejected(f) ==
  \/ f.lb_len < 2
  \/ f.lb_len = 2 /\ (f.lb_off > M1_MAX_OFFSET \/ f.lit_len = 0 \/ f.lit_len >= 4)
  \/ f.lb_len = 2 /\ Len(f.dst) = 0
  \/ Len(f.dst) = 0 /\ f.lit_len = 0
  \/ f.lb_len = M2_MIN_LEN /\ f.lb_off > M1_MAX_OFFSET + M2_MAX_OFFSET /\ f.lit_len >= 4

\* The dictionary and the frame after an advance that returned a: [d, f].
Advanced(f, a) ==
  [d |-> a.d,
   f |-> [f EXCEPT !.s = a.s, !.lb_off = a.lb_off, !.lb_len = a.lb_len,
                   !.best_off = a.best_off, !.fault = a.fault]]

\* `if lit_len == 0 { lit_ptr = s.bufp }`
LitPtr(f) == IF f.lit_len = 0 THEN f.s.bufp ELSE f.lit_ptr

\* A round of `while s.buf_sz > 0` whose match is rejected: [d, f] afterwards.
loop_literal(d, f) ==
  Advanced([f EXCEPT !.lit_ptr = LitPtr(f), !.lit_len = @ + 1],
           Dict_advance(d, f.s, 0, f.best_off, FALSE))

\* A round whose match is kept, up to `lit_len = 0`: the frame before the
\* advance(skip = true) that follows.
loop_emit(f) ==
  LET b == find_better_match(f.best_off, f.lb_len, f.lb_off)
      l == encode_literal_run(f.dst, f.dst_cap, f.s.src, LitPtr(f), f.lit_len)
      m == encode_lookback_match(l.dst, f.dst_cap, b.lb_len, b.lb_off, f.lit_len)
      f1 == [f EXCEPT !.lit_ptr = LitPtr(f), !.lb_len = b.lb_len, !.lb_off = b.lb_off]
  IN  IF l.err # "None" \/ l.fault
      THEN [f1 EXCEPT !.dst = l.dst, !.err = l.err, !.fault = l.fault]
      ELSE IF m.err # "None" THEN [f1 EXCEPT !.dst = m.dst, !.err = m.err]
      ELSE [f1 EXCEPT !.dst = m.dst, !.lit_len = 0]

\* One round of `while s.buf_sz > 0`: [d, f] afterwards.
loop_body(d, f) ==
  LET Emitted(e) ==
        IF e.err # "None" \/ e.fault THEN [d |-> d, f |-> e]
        ELSE Advanced(e, Dict_advance(d, e.s, e.lb_len, e.best_off, TRUE))
  IN  IF Rejected(f) THEN loop_literal(d, f) ELSE Emitted(loop_emit(f))

\* A faulty end: a byte of padding follows the terminator, which a decoder
\* never reads.
compress_end_padded(f) ==
  LET lits == encode_literal_run(f.dst, f.dst_cap, f.s.src, f.lit_ptr, f.lit_len)
  IN  [f EXCEPT !.dst = lits.dst \o <<U8(BitOr(M4_MARKER, 1)), 0, 0, 0>>,
                !.err = lits.err, !.fault = lits.fault]

\* A faulty end of lzokay_compress_dict, whose last opcode is M4_MARKER without
\* the length field 1: C4 fails with it.
compress_end_no_length(f) ==
  LET l == encode_literal_run(f.dst, f.dst_cap, f.s.src, f.lit_ptr, f.lit_len)
  IN  IF l.err # "None" \/ l.fault THEN [f EXCEPT !.dst = l.dst, !.err = l.err,
                                                  !.fault = l.fault]
      ELSE [f EXCEPT !.dst = l.dst \o <<U8(M4_MARKER), 0, 0>>]

\* After the loop: the last literal run and the terminating M4.
compress_end(f) ==
  LET l == encode_literal_run(f.dst, f.dst_cap, f.s.src, f.lit_ptr, f.lit_len)
  IN  IF l.err # "None" \/ l.fault THEN [f EXCEPT !.dst = l.dst, !.err = l.err,
                                                  !.fault = l.fault]
      ELSE IF Len(l.dst) + 3 > f.dst_cap THEN [f EXCEPT !.dst = l.dst,
                                                        !.err = "OutputOverrun"]
      ELSE [f EXCEPT !.dst = l.dst \o <<U8(BitOr(M4_MARKER, 1)), 0, 0>>]

\* A frame the main loop has left: by `?`, by a fault, or by buf_sz = 0.
LoopOver(f) == f.err # "None" \/ f.fault \/ f.s.buf_sz = 0

\* `while s.buf_sz > 0` from r = [d, f].
RECURSIVE RunLoop(_)
RunLoop(r) == IF LoopOver(r.f) THEN r ELSE RunLoop(loop_body(r.d, r.f))

\* What compress_with_dict returns for a finished frame.
Returned(f) ==
  IF f.fault THEN [kind |-> "Fault", bytes |-> << >>]
  ELSE IF f.err # "None" THEN [kind |-> "Err", bytes |-> << >>]
  ELSE [kind |-> "Ok", bytes |-> f.dst]

\* lzokay_compress_dict as one function: [d, f] at its return.
lzokay_compress_dict(src, init_dst_size, dict_storage) ==
  LET Looped(r) ==
        [d |-> r.d, f |-> IF r.f.err # "None" \/ r.f.fault THEN r.f ELSE compress_end(r.f)]
  IN  Looped(RunLoop(compress_begin(src, init_dst_size, dict_storage)))

\* A faulty compress_with_dict, without its test for the empty slice: C6 fails
\* with it.
compress_with_dict_always(data, dict) ==
  LET Done(r) == [ret |-> Returned(r.f), d |-> r.d]
  IN  Done(lzokay_compress_dict(data, compress_worst_size(Len(data)), dict))

\* compress_with_dict: [ret, d] afterwards.
compress_with_dict(data, dict) ==
  IF Len(data) = 0 THEN [ret |-> [kind |-> "Ok", bytes |-> << >>], d |-> dict]
  ELSE LET Done(r) == [ret |-> Returned(r.f), d |-> r.d]
       IN  Done(lzokay_compress_dict(data, compress_worst_size(Len(data)), dict))

compress(data) == compress_with_dict(data, Dict_new).ret

\* ------------------------------------------------------------------ util.rs, decompress.rs

\* A reader is a Cursor over the byte string st at the 0-based position pos.
\* A read past the end is the io::Error UnexpectedEof, which `?` turns into
\* LzokayError::IOError.
CanRead(st, pos, n) == pos + n <= Len(st)
ByteAt(st, pos) == st[pos + 1]

\* consume_zero_byte_length_stream: the number of zero bytes at pos, or -1 when
\* peek_u8 fails because the zeros reach the end of the stream.
consume_zero_byte_length_stream(st, pos) ==
  LET NonZero(k) == pos + k < Len(st) /\ ByteAt(st, pos + k) # 0
      stop == {k \in 0..(Len(st) - pos) : NonZero(k)}
  IN  IF stop = {} THEN -1 ELSE CHOOSE k \in stop : \A j \in stop : k <= j

\* Two faulty ways to stop.  The first reports the end of the stream as the
\* framing error: C7 fails with it.  The second takes the end of the stream
\* for the end of the data: C8 fails with it.
Stop_framing(kind, c) == [c EXCEPT !.kind = IF kind = "IOError" THEN "Error" ELSE kind]
Stop_at_eof(kind, c) == [c EXCEPT !.kind = IF kind = "IOError" THEN "Ok" ELSE kind]

\* What decompress_stream has when it stops: kind is "Ok" or the error
\* ("IOError", "Error") or "Panic" (an arithmetic overflow or an index out of
\* range: the thread unwinds); result the bytes written, pos the reader's
\* position, inst / lblen / dist the last block-copy opcode read, brk whether
\* the loop was left by `break`.
Stop(kind, c) == [c EXCEPT !.kind = kind]

\* The lookbehind copy `for i in 0..lblen { result.push(result[lbcur + i]) }`:
\* byte i of the copy is result[lbcur + i], which for i >= dist is a byte this
\* loop wrote, i.e. the copy repeats the dist bytes at lbcur.
CopyLookbehind(result, lbcur, lblen) ==
  LET n == Len(result)
      dist == n - lbcur
  IN  [j \in 1..(n + lblen) |->
         IF j <= n THEN result[j] ELSE result[lbcur + 1 + ((j - n - 1) % dist)]]

\* The tail of one round of the decoder's loop, once lbcur, lblen and nstate
\* are known: the copy, `state = nstate`, the nstate literals.
CopyAndLiterals(st, c, pos, lbcur, lblen, nstate, inst) ==
  LET c1 == [c EXCEPT !.pos = pos, !.lblen = lblen, !.inst = inst,
                      !.dist = Len(c.result) - lbcur]
  IN  IF lbcur < 0 THEN Stop("Panic", c1)
      ELSE LET copied == CopyLookbehind(c.result, lbcur, lblen)
           IN  IF ~CanRead(st, pos, nstate)
               THEN Stop("IOError", [c1 EXCEPT !.result = copied, !.state = nstate])
               ELSE [c1 EXCEPT !.result = copied \o SubSeq(st, pos + 1, pos + nstate),
                               !.state = nstate, !.pos = pos + nstate]

\* A faulty extended length, which counts 256 for a zero byte.
ExtendedLen_256(st, pos, start, base) ==
  LET offset == consume_zero_byte_length_stream(st, pos)
  IN  IF offset < 0 \/ ~CanRead(st, pos + offset, 1)
      THEN [ok |-> FALSE, len |-> 0, pos |-> pos]
      ELSE [ok |-> TRUE, len |-> start + offset * 256 + base + ByteAt(st, pos + offset),
            pos |-> pos + offset + 1]

\* The length of an M3 / M4 / literal opcode whose length field is zero:
\* [ok, len, pos], with base 31, 7 or 15.
ExtendedLen(st, pos, start, base) ==
  LET offset == consume_zero_byte_length_stream(st, pos)
  IN  IF offset < 0 \/ ~CanRead(st, pos + offset, 1)
      THEN [ok |-> FALSE, len |-> 0, pos |-> pos]
      ELSE [ok |-> TRUE, len |-> start + offset * 255 + base + ByteAt(st, pos + offset),
            pos |-> pos + offset + 1]

\* The first-byte encoding of decompress_stream.
decode_first(st) ==
  LET c == [kind |-> "Run", result |-> << >>, pos |-> 0, state |-> 0,
            lblen |-> 0, inst |-> 0, dist |-> 0, brk |-> FALSE]
  IN  IF ~CanRead(st, 0, 1) THEN Stop("IOError", c)
      ELSE IF ByteAt(st, 0) >= 22
      THEN LET len == ByteAt(st, 0) - 17
           IN  IF ~CanRead(st, 1, len) THEN Stop("IOError", [c EXCEPT !.pos = 1])
               ELSE [c EXCEPT !.result = SubSeq(st, 2, 1 + len), !.pos = 1 + len,
                              !.state = 4]
      ELSE IF ByteAt(st, 0) >= 18
      THEN LET nstate == ByteAt(st, 0) - 17
           IN  IF ~CanRead(st, 1, nstate)
               THEN Stop("IOError", [c EXCEPT !.pos = 1, !.state = nstate])
               ELSE [c EXCEPT !.result = SubSeq(st, 2, 1 + nstate), !.pos = 1 + nstate,
                              !.state = nstate]
      ELSE c

\* One round of the `loop` of decompress_stream.
decode_inst(st, c) ==
  IF ~CanRead(st, c.pos, 1) THEN Stop("IOError", c)
  ELSE
  LET inst == ByteAt(st, c.pos)
      p1 == c.pos + 1
      n == Len(c.result)
  IN
  IF BitAnd(inst, 192) # 0
  THEN \* M2
       IF ~CanRead(st, p1, 1) THEN Stop("IOError", [c EXCEPT !.pos = p1])
       ELSE CopyAndLiterals(st, c, p1 + 1,
                            n - (ByteAt(st, p1) * 8 + BitAnd(inst \div 4, 7) + 1),
                            inst \div 32 + 1, BitAnd(inst, 3), inst)
  ELSE IF BitAnd(inst, M3_MARKER) # 0
  THEN \* M3
       LET l == IF BitAnd(inst, 31) + 2 = 2 THEN ExtendedLen(st, p1, 2, 31)
                ELSE [ok |-> TRUE, len |-> BitAnd(inst, 31) + 2, pos |-> p1]
       IN  IF ~l.ok \/ ~CanRead(st, l.pos, 2) THEN Stop("IOError", [c EXCEPT !.pos = l.pos])
           ELSE LET le16 == ByteAt(st, l.pos) + 256 * ByteAt(st, l.pos + 1)
                IN  CopyAndLiterals(st, c, l.pos + 2, n - (le16 \div 4 + 1), l.len,
                                    BitAnd(le16, 3), inst)
  ELSE IF BitAnd(inst, M4_MARKER) # 0
  THEN \* M4
       LET l == IF BitAnd(inst, 7) + 2 = 2 THEN ExtendedLen(st, p1, 2, 7)
                ELSE [ok |-> TRUE, len |-> BitAnd(inst, 7) + 2, pos |-> p1]
       IN  IF ~l.ok \/ ~CanRead(st, l.pos, 2) THEN Stop("IOError", [c EXCEPT !.pos = l.pos])
           ELSE LET le16 == ByteAt(st, l.pos) + 256 * ByteAt(st, l.pos + 1)
                    field == BitAnd(inst, 8) * 2048 + le16 \div 4
                IN  IF field = 0
                    THEN [c EXCEPT !.kind = "Break", !.pos = l.pos + 2, !.lblen = l.len,
                                   !.inst = inst, !.dist = 0, !.brk = TRUE]
                    ELSE CopyAndLiterals(st, c, l.pos + 2, (n - field) - 16384, l.len,
                                         BitAnd(le16, 3), inst)
  ELSE IF c.state = 0
  THEN \* a literal run
       LET l == IF inst + 3 = 3 THEN ExtendedLen(st, p1, 3, 15)
                ELSE [ok |-> TRUE, len |-> inst + 3, pos |-> p1]
       IN  IF ~l.ok \/ ~CanRead(st, l.pos, l.len) THEN Stop("IOError", [c EXCEPT !.pos = l.pos])
           ELSE [c EXCEPT !.result = @ \o SubSeq(st, l.pos + 1, l.pos + l.len),
                          !.pos = l.pos + l.len, !.state = 4]
  ELSE IF c.state # 4
  THEN \* M1, 2 bytes
       IF ~CanRead(st, p1, 1) THEN Stop("IOError", [c EXCEPT !.pos = p1])
       ELSE CopyAndLiterals(st, c, p1 + 1, n - (inst \div 4 + ByteAt(st, p1) * 4 + 1),
                            2, BitAnd(inst, 3), inst)
  ELSE \* M1, 3 bytes at 2049..
       IF ~CanRead(st, p1, 1) THEN Stop("IOError", [c EXCEPT !.pos = p1])
       ELSE CopyAndLiterals(st, c, p1 + 1, n - (inst \div 4 + ByteAt(st, p1) * 4 + 2049),
                            3, BitAnd(inst, 3), inst)

RECURSIVE DecodeLoop(_, _)
DecodeLoop(st, c) == IF c.kind # "Run" THEN c ELSE DecodeLoop(st, decode_inst(st, c))

\* decompress_stream of a reader over st.
decompress_stream(st) ==
  LET Left(c) == IF c.kind # "Break" THEN c
                 ELSE IF c.lblen # 3 THEN Stop("Error", c)
                 ELSE Stop("Ok", c)
  IN  Left(DecodeLoop(st, decode_first(st)))

\* ------------------------------------------------------------------ decompress_unsafe
\* The strict decoder that decompress.rs keeps in comments: src the input
\* buffer, cap = init_dst_size the room at dst.  Its record has the fields of
\* the one above; inp is pos.

needs_in(src, inp, len) == inp + len <= Len(src)
needs_out(outn, len, cap) == outn + len <= cap

\* consume_zero_byte_length: the number of zero bytes at inp, or -1 when the
\* zeros reach inp_end and the loop reads outside src (it has no bounds check).
\* MAX_255_COUNT is above every count a stream of the lengths used here has.
consume_zero_byte_length(src, inp) ==
  LET NonZero(k) == inp + k < Len(src) /\ src[inp + k + 1] # 0
      stop == {k \in 0..(Len(src) - inp) : NonZero(k)}
  IN  IF stop = {} THEN -1 ELSE CHOOSE k \in stop : \A j \in stop : k <= j

\* `needs_in; needs_out; while i < len { *outp = *inp ... }`
unsafe_literals(src, cap, c, inp, len, state) ==
  IF ~needs_in(src, inp, len) THEN Stop("InputOverrun", [c EXCEPT !.pos = inp])
  ELSE IF ~needs_out(Len(c.result), len, cap)
  THEN Stop("OutputOverrun", [c EXCEPT !.pos = inp])
  ELSE [c EXCEPT !.result = @ \o SubSeq(src, inp + 1, inp + len), !.pos = inp + len,
                 !.state = state]

\* The first-byte encoding of decompress_unsafe.
unsafe_first(src, cap) ==
  LET c == [kind |-> "Run", result |-> << >>, pos |-> 0, state |-> 0,
            lblen |-> 0, inst |-> 0, dist |-> 0, brk |-> FALSE]
  IN  IF Len(src) < 3 THEN Stop("InputOverrun", c)
      ELSE IF src[1] >= 22 THEN unsafe_literals(src, cap, c, 1, src[1] - 17, 4)
      ELSE IF src[1] >= 18 THEN unsafe_literals(src, cap, c, 1, src[1] - 17, src[1] - 17)
      ELSE c

\* The tail of one round of its loop (from `if lbcur < dst` on).
unsafe_copy(src, cap, c, inp, lbcur, lblen, nstate, inst) ==
  LET c1 == [c EXCEPT !.pos = inp, !.lblen = lblen, !.inst = inst,
                      !.dist = Len(c.result) - lbcur]
  IN  IF lbcur < 0 THEN Stop("LookbehindOverrun", c1)
      ELSE IF ~needs_in(src, inp, nstate) THEN Stop("InputOverrun", c1)
      ELSE IF ~needs_out(Len(c.result), lblen + nstate, cap) THEN Stop("OutputOverrun", c1)
      ELSE [c1 EXCEPT !.result = CopyLookbehind(c.result, lbcur, lblen)
                                   \o SubSeq(src, inp + 1, inp + nstate),
                      !.state = nstate, !.pos = inp + nstate]

\* A length whose field is zero: [kind, len, pos], kind "UB" when
\* consume_zero_byte_length read outside src.
unsafe_extended(src, inp, start, base) ==
  LET Counted(offset) ==
        IF offset < 0 THEN [kind |-> "UB", len |-> 0, pos |-> inp]
        ELSE IF ~needs_in(src, inp + offset, 1)
        THEN [kind |-> "InputOverrun", len |-> 0, pos |-> inp + offset]
        ELSE [kind |-> "Run", len |-> start + offset * 255 + base + src[inp + offset + 1],
              pos |-> inp + offset + 1]
  IN  Counted(consume_zero_byte_length(src, inp))

\* An M3 / M4 opcode of decompress_unsafe, l its length and h the high bit of
\* the M4 distance (0 for M3).
unsafe_far(src, cap, c, l, inst, h) ==
  IF l.kind # "Run" THEN Stop(l.kind, [c EXCEPT !.pos = l.pos])
  ELSE IF ~needs_in(src, l.pos, 2) THEN Stop("InputOverrun", [c EXCEPT !.pos = l.pos])
  ELSE LET nstate == src[l.pos + 1] + 256 * src[l.pos + 2]
           n == Len(c.result)
       IN  IF BitAnd(inst, M3_MARKER) # 0
           THEN unsafe_copy(src, cap, c, l.pos + 2, n - (nstate \div 4 + 1), l.len,
                            BitAnd(nstate, 3), inst)
           ELSE IF h + nstate \div 4 = 0
           THEN [c EXCEPT !.kind = "Break", !.pos = l.pos + 2, !.lblen = l.len,
                          !.inst = inst, !.dist = 0, !.brk = TRUE]
           ELSE unsafe_copy(src, cap, c, l.pos + 2, (n - (h + nstate \div 4)) - 16384,
                            l.len, BitAnd(nstate, 3), inst)

\* One round of the `loop` of decompress_unsafe.
unsafe_inst(src, cap, c) ==
  IF ~needs_in(src, c.pos, 1) THEN Stop("InputOverrun", c)
  ELSE
  LET inst == src[c.pos + 1]
      p1 == c.pos + 1
      n == Len(c.result)
  IN
  IF BitAnd(inst, 192) # 0
  THEN IF ~needs_in(src, p1, 1) THEN Stop("InputOverrun", [c EXCEPT !.pos = p1])
       ELSE unsafe_copy(src, cap, c, p1 + 1,
                        n - (src[p1 + 1] * 8 + BitAnd(inst \div 4, 7) + 1),
                        inst \div 32 + 1, BitAnd(inst, 3), inst)
  ELSE IF BitAnd(inst, M3_MARKER) # 0
  THEN unsafe_far(src, cap, c,
                  IF BitAnd(inst, 31) + 2 = 2 THEN unsafe_extended(src, p1, 2, 31)
                  ELSE [kind |-> "Run", len |-> BitAnd(inst, 31) + 2, pos |-> p1],
                  inst, 0)
  ELSE IF BitAnd(inst, M4_MARKER) # 0
  THEN unsafe_far(src, cap, c,
                  IF BitAnd(inst, 7) + 2 = 2 THEN unsafe_extended(src, p1, 2, 7)
                  ELSE [kind |-> "Run", len |-> BitAnd(inst, 7) + 2, pos |-> p1],
                  inst, BitAnd(inst, 8) * 2048)
  ELSE IF c.state = 0
  THEN LET Run1(l) == IF l.kind # "Run" THEN Stop(l.kind, [c EXCEPT !.pos = l.pos])
                      ELSE unsafe_literals(src, cap, c, l.pos, l.len, 4)
       IN  Run1(IF inst + 3 = 3 THEN unsafe_extended(src, p1, 3, 15)
                ELSE [kind |-> "Run", len |-> inst + 3, pos |-> p1])
  ELSE IF ~needs_in(src, p1, 1) THEN Stop("InputOverrun", [c EXCEPT !.pos = p1])
  ELSE IF c.state # 4
  THEN unsafe_copy(src, cap, c, p1 + 1, n - (inst \div 4 + src[p1 + 1] * 4 + 1),
                   2, BitAnd(inst, 3), inst)
  ELSE unsafe_copy(src, cap, c, p1 + 1, n - (inst \div 4 + src[p1 + 1] * 4 + 2049),
                   3, BitAnd(inst, 3), inst)

RECURSIVE UnsafeLoop(_, _, _)
UnsafeLoop(src, cap, c) ==
  IF c.kind # "Run" THEN c ELSE UnsafeLoop(src, cap, unsafe_inst(src, cap, c))

\* decompress_unsafe(src, src_size, dst, init_dst_size, ..)
decompress_unsafe(src, cap) ==
  LET Left(c) == IF c.kind # "Break" THEN c
                 ELSE IF c.lblen # 3 THEN Stop("Error", c)
                 ELSE IF c.pos = Len(src) THEN Stop("Ok", c)
                 ELSE IF c.pos < Len(src) THEN Stop("InputNotConsumed", c)
                 ELSE Stop("InputOverrun", c)
  IN  Left(UnsafeLoop(src, cap, unsafe_first(src, cap)))

\* ------------------------------------------------------------------ inputs

Seqs(A, n) == UNION {[1..k -> A] : k \in 0..n}

\* k copies of the byte b.
Run(b, k) == [i \in 1..k |-> b]

\* k bytes in which no three consecutive bytes occur twice: 0, 1, .., 255 and
\* then 1, 3, 5, ..
Ramp(k) == [i \in 1..k |-> IF i <= 256 THEN i - 1 ELSE (2 * (i - 257) + 1) % 256]

\* k bytes of period p: 65, 66, .., 65 + p - 1, 65, ..
Cycle(p, k) == [i \in 1..k |-> 65 + ((i - 1) % p)]

\* k bytes in which no two consecutive bytes occur twice (k <= 32768): the
\* pairs (j % 128, 128 + j \div 128) for j = 0, 1, ..
Noise(k) ==
  [i \in 1..k |-> IF i % 2 = 1 THEN ((i - 1) \div 2) % 128
                  ELSE 128 + ((i - 1) \div 2) \div 128]

\* Noise(k) and then its first m bytes again: one match of length m at
\* distance k.
Far(k, m) == Noise(k) \o SubSeq(Noise(k), 1, m)

\* Long inputs: runs (one match with its length extended by 0, 1 and 2 bytes),
\* cycles (a long match at a distance above 1), ramps (one literal run at the
\* start of the stream), a short match followed by a ramp (a literal run
\* after a match, with its length carried, in one byte, and extended), and
\* matches at distances above M2_MAX_OFFSET and above
\* M1_MAX_OFFSET + M2_MAX_OFFSET, and a match, four literals and two bytes
\* that occur before (a match of length 2 that the rejection rule refuses for
\* its literal run).
RunLens == {34, 35, 289, 290}
CycleLens == {12, 40}
RampLens == {238, 239, 273, 274}
TailLens == {3, 4, 18, 19, 273, 274}
FarLens == {2100, 3100}
LongInputs ==
  {Run(65, k) : k \in RunLens} \cup {Cycle(p, k) : p \in {2, 3}, k \in CycleLens}
    \cup {Ramp(k) : k \in RampLens} \cup {Run(200, 4) \o Ramp(k) : k \in TailLens}
    \cup {Far(k, m) : k \in FarLens, m \in {3, 4, 5}}
    \cup {Run(65, 5) \o <<66, 67, 68, 69, 65, 66>>}

Inputs == Seqs(Alphabet2, MaxLen2) \cup Seqs(Alphabet3, MaxLen3) \cup LongInputs

\* ------------------------------------------------------------------ the program

VARIABLES
  pc,      \* "idle", in compress_with_dict ("loop", "skip"), "done", "decoded";
           \* after an emitter called on its own ("literal", "match"), "read"
  data,    \* the slice given to compress_with_dict
  dict,    \* the Dict
  f,       \* the frame of lzokay_compress_dict
  ret,     \* what compress_with_dict returned
  calls,   \* the number of compress_with_dict calls on dict so far
  stream,  \* the bytes under the reader given to the decoder
  dec      \* what the decoder returned (out) and which stream it was given (by)

vars == <<pc, data, dict, f, ret, calls, stream, dec>>

NoFrame == [s |-> State_new, dst |-> << >>, dst_cap |-> 0, lit_len |-> 0, lit_ptr |-> 0,
            lb_off |-> 0, lb_len |-> 0, best_off |-> [k \in 0..33 |-> 0],
            err |-> "None", fault |-> FALSE, skip_i |-> 0]
NoRet == [kind |-> "None", bytes |-> << >>]
NoDec == [out |-> [kind |-> "None"], by |-> "None"]

Init ==
  /\ pc = "idle"
  /\ data = << >>
  /\ dict = Dict_new
  /\ f = NoFrame
  /\ ret = NoRet
  /\ calls = 0
  /\ stream = << >>
  /\ dec = NoDec

\* The dictionary and the frame an operation leaves, r = [d, f].
Goes(r) ==
  /\ dict' = r.d
  /\ f' = r.f

\* Where a frame goes next: back to the caller when the loop is over by `?`.
Leave(fr) ==
  /\ pc' = "done"
  /\ f' = fr
  /\ ret' = Returned(fr)

\* compress_with_dict on the empty slice.
CompressEmpty(maxCalls) ==
  /\ pc \in {"idle", "done"}
  /\ calls < maxCalls
  /\ data' = << >>
  /\ LET Called(r) == ret' = r.ret /\ dict' = r.d
     IN  Called(compress_with_dict(<< >>, dict))
  /\ pc' = "done"
  /\ calls' = calls + 1
  /\ UNCHANGED <<f, stream, dec>>

\* compress_with_dict on a non-empty slice of inputs, up to the first test of
\* the main loop.
CompressBegin(inputs, maxCalls) ==
  /\ pc \in {"idle", "done"}
  /\ calls < maxCalls
  /\ \E x \in inputs :
       /\ Len(x) > 0
       /\ Goes(compress_begin(x, compress_worst_size(Len(x)), dict))
       /\ data' = x
  /\ pc' = "loop"
  /\ ret' = NoRet
  /\ calls' = calls + 1
  /\ UNCHANGED <<stream, dec>>

\* A round of the main loop that rejects the match.
LoopLiteral ==
  /\ pc = "loop"
  /\ ~LoopOver(f)
  /\ Rejected(f)
  /\ Goes(loop_literal(dict, f))
  /\ UNCHANGED <<pc, data, ret, calls, stream, dec>>

\* A round of the main loop that keeps the match: the rewriter and the two
\* emitters, up to the skip loop of advance.
LoopEmit ==
  /\ pc = "loop"
  /\ ~LoopOver(f)
  /\ ~Rejected(f)
  /\ LET Emitted(e) ==
           IF e.err # "None" \/ e.fault THEN Leave(e)
           ELSE /\ f' = [e EXCEPT !.skip_i = 0]
                /\ pc' = "skip"
                /\ ret' = ret
     IN  Emitted(loop_emit(f))
  /\ UNCHANGED <<data, dict, calls, stream, dec>>

\* One round of the skip loop of advance(skip = true).
SkipAdvance ==
  /\ pc = "skip"
  /\ f.skip_i < f.lb_len - 1
  /\ LET Stepped(r) ==
           /\ dict' = r.d
           /\ f' = [f EXCEPT !.s = r.s, !.skip_i = @ + 1]
     IN  Stepped(SkipStep(dict, f.s))
  /\ UNCHANGED <<pc, data, ret, calls, stream, dec>>

\* The rest of advance(skip = true).
SkipDone ==
  /\ pc = "skip"
  /\ f.skip_i >= f.lb_len - 1
  /\ Goes(Advanced(f, advance_search(dict, f.s, f.best_off)))
  /\ pc' = "loop"
  /\ UNCHANGED <<data, ret, calls, stream, dec>>

\* The main loop is over: the last literal run, the terminator, the return.
CompressEnd ==
  /\ pc = "loop"
  /\ LoopOver(f)
  /\ Leave(IF f.err # "None" \/ f.fault THEN f ELSE compress_end(f))
  /\ UNCHANGED <<data, dict, calls, stream, dec>>

\* decompress_stream on st.
Decode(st, by) ==
  /\ stream' = st
  /\ dec' = [out |-> decompress_stream(st), by |-> by]
  /\ pc' = "decoded"
  /\ UNCHANGED <<data, dict, f, ret, calls>>

\* decompress_stream on what compress returned.
Decompress ==
  /\ pc = "done"
  /\ ret.kind = "Ok"
  /\ Decode(ret.bytes, "full")

\* The lengths of the proper prefixes of a stream of n bytes that are given to
\* the decoder: all of them, but for the middle of a stream above 2 * MaxCut.
MaxCut == 300
Cuts(n) == {k \in 0..(n - 1) : k <= MaxCut \/ k >= n - MaxCut}

\* decompress_stream on a proper prefix of what compress returned.
DecompressPrefix ==
  /\ pc = "done"
  /\ ret.kind = "Ok"
  /\ \E k \in Cuts(Len(ret.bytes)) : Decode(SubSeq(ret.bytes, 1, k), "prefix")

\* decompress_stream on what compress returned with extra bytes after it.
DecompressTrailing(extra) ==
  /\ pc = "done"
  /\ ret.kind = "Ok"
  /\ Len(ret.bytes) > 0
  /\ Decode(ret.bytes \o extra, "trailing")

\* decompress_unsafe on what compress returned, with room for the input.
DecompressUnsafe ==
  /\ pc = "done"
  /\ ret.kind = "Ok"
  /\ Len(ret.bytes) > 0
  /\ stream' = ret.bytes
  /\ dec' = [out |-> decompress_unsafe(ret.bytes, Len(data)), by |-> "unsafe"]
  /\ pc' = "decoded"
  /\ UNCHANGED <<data, dict, f, ret, calls>>

\* The streams given to the decoder that no encoder wrote.
MaxAny == 4
AnyBytes == {0, 1, 4, 16, 17, 18, 32, 64}
AnyStreams == Seqs(AnyBytes, MaxAny)
Trailers == {<<0>>, <<17>>, <<17, 0, 0>>}

\* decompress_stream on bytes from anywhere.
DecompressAny ==
  /\ pc = "idle"
  /\ \E st \in AnyStreams : Decode(st, "any")

Next ==
  \/ CompressEmpty(1)
  \/ CompressBegin(Inputs, 1)
  \/ LoopLiteral
  \/ LoopEmit
  \/ SkipAdvance
  \/ SkipDone
  \/ CompressEnd
  \/ Decompress
  \/ DecompressPrefix
  \/ \E extra \in Trailers : DecompressTrailing(extra)
  \/ DecompressUnsafe
  \/ DecompressAny

Spec == Init /\ [][Next]_vars

\* compress and the two decoders on the same inputs and on one more, whose
\* match is at a distance above M3_MAX_OFFSET.
DistantInputs == {Far(16400, 4)}

NextDistant ==
  \/ CompressBegin(Inputs \cup DistantInputs, 1)
  \/ LoopLiteral
  \/ LoopEmit
  \/ SkipAdvance
  \/ SkipDone
  \/ CompressEnd
  \/ Decompress
  \/ DecompressUnsafe

SpecDistant == Init /\ [][NextDistant]_vars

\* One Dict given to MaxCalls calls of compress_with_dict in a row.
MaxCalls == 2
ReuseMaxLen == 5
\* Short cycles, and two slices of which the first leaves "AAACDE" in the
\* buffer beyond all that a call on the second writes, and on the chain that
\* the second would walk at its own "AAACDE" if chain_sz were not reset.
ReuseLong ==
  {Ramp(30) \o <<65, 65, 65, 67, 68, 69>>, Run(65, 6) \o <<66, 65, 65, 65, 67, 68, 69>>}
ReuseInputs == {Cycle(p, k) : p \in 1..3, k \in 1..ReuseMaxLen} \cup ReuseLong

NextReuse ==
  \/ CompressEmpty(MaxCalls)
  \/ CompressBegin(ReuseInputs, MaxCalls)
  \/ LoopLiteral
  \/ LoopEmit
  \/ SkipAdvance
  \/ SkipDone
  \/ CompressEnd

SpecReuse == Init /\ [][NextReuse]_vars

\* ------------------------------------------------------------------ the window after a long run
\* compress on lead \o Run(65, t - Len(lead)) \o tail, lead of at most one
\* byte, taken up at a point of its main loop that needs more than WindowMax
\* rounds to reach: what the Dict and the locals hold there follows from the
\* code, round by round, since every round before it sees the same bytes.  The
\* bytes up to the first of the run are literals; at the positions
\* Len(lead) + 1 + 2048 * j the search finds the match of the whole lookahead at
\* distance 1 and the skip loop of advance passes over the rest.

\* The slice: the tail starts at position t.
RunInput(lead, t, tail) == lead \o Run(65, t - Len(lead)) \o tail

\* Byte idx (from 0) of the slice x, and 0 beyond its end (what get_byte
\* writes once the input is exhausted).
SrcAt(x, idx) == IF idx < Len(x) THEN x[idx + 1] ELSE 0

\* The byte at position p of the buffer of a fresh Dict after Dict::init and k
\* calls of get_byte on x (LookaheadMax <= k + LookaheadMax < 2 * W): the last
\* byte written there, the mirror above W being written by get_byte alone.
BufferAt(x, k, p) ==
  IF p >= W THEN IF p < k + LookaheadMax THEN SrcAt(x, p) ELSE 0
  ELSE IF p + W < k + LookaheadMax THEN SrcAt(x, p + W)
  ELSE IF p < k + LookaheadMax THEN SrcAt(x, p)
  ELSE 0

\* That buffer, as an array.
BufferAfter(x, k) ==
  [fill |-> 65,
   set |-> [p \in {q \in 0..(W + LookaheadMax - 1) : BufferAt(x, k, q) # 65} |->
              BufferAt(x, k, p)]]

\* The length of the match found at a position q of the run, the tail, which
\* does not start with 65, being at position t.
RunMatchLen(x, t, q) ==
  LET ahead == IF Len(x) - q < LookaheadMax THEN Len(x) - q ELSE LookaheadMax
  IN  IF t - q < ahead THEN t - q ELSE ahead

\* The Match3 and Match2 indices after k rounds (k <= W, k + 2 <= t), l being
\* the length of the lead: the positions of the run are in one chain, and
\* position 0 is in a chain of its own when there is a lead, until the round
\* that finds cycle1_countdown at 0 removes it; best_len is 0x801 where
\* skip_advance passed, and the length found where advance searched.
IndexAfter(x, l, t, k) ==
  LET key == Match3_make_key(ArrFill(65), 0)
      live == IF k > WindowMax THEN WindowMax ELSE k
      kept == IF k > WindowMax THEN 0 ELSE l
      found(i) == IF i <= l THEN 1 ELSE RunMatchLen(x, t, i)
      Lead3(a, v) == IF l = 0 THEN a ELSE Wr(a, Match3_make_key(BufferAfter(x, 0), 0), v)
      Lead2(a, v) == IF l = 0 THEN a ELSE Wr(a, Match2_make_key(BufferAfter(x, 0), 0), v)
  IN  [match3 |->
         [head |-> Wr(Lead3(ArrFill(0), 0), key, k - 1),
          chain_sz |-> Wr(Lead3(ArrFill(0), kept), key, live - kept),
          chain |-> [fill |-> 0,
                     set |-> [i \in 0..(k - 1) |-> IF i <= l THEN NoPos ELSE i - 1]],
          best_len |-> [fill |-> LookaheadMax + 1,
                        set |-> [i \in {q \in 0..(W - 1) :
                                          q >= k \/ q <= l
                                            \/ q % LookaheadMax = (l + 1) % LookaheadMax} |->
                                   IF i >= k THEN 0 ELSE found(i)]]],
       match2 |->
         [head |-> Wr(Lead2(ArrFill(NoPos), IF kept = 0 THEN NoPos ELSE 0),
                      Match2_make_key(ArrFill(65), 0), k - 1)]]

\* The bytes written for the first literals and the first j + 1 matches: the
\* literals, the match at position l + 1, j - 1 matches of the whole lookahead
\* and the match at position l + 1 + 2048 * j.
RunMatches(x, l, t, cap, j) ==
  LET first == encode_lookback_match(encode_literal_run(<< >>, cap, x, 0, l + 1).dst, cap,
                                     RunMatchLen(x, t, l + 1), 1, l + 1).dst
      whole == encode_lookback_match(<< >>, cap, LookaheadMax, 1, 0).dst
      last == encode_lookback_match(<< >>, cap, RunMatchLen(x, t, l + 1 + LookaheadMax * j),
                                    1, 0).dst
  IN  IF j = 0 THEN first
      ELSE first \o [i \in 1..(Len(whole) * (j - 1)) |-> whole[((i - 1) % Len(whole)) + 1]]
                 \o last

\* The State after k rounds, the last search having been at position q.
StateAfter(x, k, q) ==
  LET n == Len(x)
      ahead(c) == IF n - c < LookaheadMax THEN n - c ELSE LookaheadMax
      inp(c) == IF c + LookaheadMax < n THEN c + LookaheadMax ELSE n
  IN  [src |-> x, src_end |-> n, inp |-> inp(k), wind_sz |-> ahead(k),
       wind_b |-> k % W, wind_e |-> (k + LookaheadMax) % W,
       cycle1_countdown |-> IF k > WindowMax THEN 0 ELSE WindowMax - k,
       bufp |-> inp(q + 1) - (ahead(q + 1) + 1), buf_sz |-> ahead(q + 1) + 1]

\* compress on x = RunInput(lead, t, tail) after k rounds, in the skip loop
\* that follows the match found at position Len(lead) + 1 + 2048 * j: [d, f].
AfterRun(lead, t, tail, j, k) ==
  LET x == RunInput(lead, t, tail)
      l == Len(lead)
      q == l + 1 + LookaheadMax * j
      cap == compress_worst_size(Len(x))
      index == IndexAfter(x, l, t, k)
  IN  [d |-> [match3 |-> index.match3, match2 |-> index.match2,
              buffer |-> BufferAfter(x, k)],
       f |-> [s |-> StateAfter(x, k, q), dst |-> RunMatches(x, l, t, cap, j),
              dst_cap |-> cap, lit_len |-> 0, lit_ptr |-> q,
              lb_off |-> 1, lb_len |-> RunMatchLen(x, t, q),
              best_off |-> [i \in 0..33 |-> IF i = 2 THEN 1 ELSE 0],
              err |-> "None", fault |-> FALSE, skip_i |-> k - (q + 1)]]

\* compress on such a slice from such a point to its return.
\* WrapStarts: the run ends WrapShort bytes before position W with the match
\* found at 1 + 2048 * 24 in progress and WrapLead + 1 rounds of its skip loop
\* to come, so that the tail is searched while wind_b passes W; or the run
\* ends WrapOver bytes after W, the call being taken up WrapLead rounds before
\* cycle1_countdown reaches 0, so that the tail is written at the start of the
\* buffer and in its mirror, and, with a lead, so that position 0 is the last
\* of its keys when it is removed; or the run ends at position WindowMax or up
\* to EdgeOver bytes after it, behind the lead 66, and the tail repeats the
\* lead and the two bytes after it, the call being taken up two rounds
\* before the tail: position 0 is then at the distance WindowMax or beyond it.
WrapShort == 4
WrapOver == 4
WrapLead == 1
WrapTailLen == 3
EdgeOver == 1
WrapTails ==
  {tl \in Seqs({66, 67}, WrapTailLen) : Len(tl) > 0}
    \cup {<<66, 67, 68, 69, 70, 66, 67, 68, 69, 70, 71>>}
WrapStarts ==
  {[lead |-> << >>, t |-> W - WrapShort, tail |-> tl, j |-> 24,
    k |-> W - WrapShort - (WrapLead + 1)] : tl \in WrapTails}
    \cup {[lead |-> ld, t |-> W + WrapOver, tail |-> <<66, 67, 68, 66, 67, 68>>, j |-> 23,
           k |-> WindowMax - WrapLead] : ld \in {<< >>, <<66>>}}
    \cup {[lead |-> <<66>>, t |-> WindowMax + o, tail |-> <<66, 65, 65, 67>>, j |-> 23,
           k |-> WindowMax + o - 2] : o \in 0..EdgeOver}

InitWrap ==
  \E st \in WrapStarts :
    LET Taken(r) == dict = r.d /\ f = r.f
    IN  /\ Taken(AfterRun(st.lead, st.t, st.tail, st.j, st.k))
        /\ data = RunInput(st.lead, st.t, st.tail)
        /\ pc = "skip"
        /\ ret = NoRet
        /\ calls = 1
        /\ stream = << >>
        /\ dec = NoDec

NextWrap ==
  \/ LoopLiteral
  \/ LoopEmit
  \/ SkipAdvance
  \/ SkipDone
  \/ CompressEnd
  \/ Decompress

SpecWrap == InitWrap /\ [][NextWrap]_vars

\* ------------------------------------------------------------------ a distant match after a run
\* compress on lead \o Run(65, t - Len(lead)) \o tail with a lead of several
\* bytes: the rounds over the lead are those of the main loop, and the rounds
\* over the run, which see the same bytes each, are taken at once.

\* The main loop up to the search that finds the match of the whole lookahead
\* (the first of the run).
RECURSIVE LeadLoop(_)
LeadLoop(r) ==
  IF r.f.lb_len = LookaheadMax \/ LoopOver(r.f) THEN r
  ELSE LeadLoop(loop_body(r.d, r.f))

\* compress on x up to the skip loop that follows that match: [d, f].
RunBegun(x) ==
  LET Emitted(r) == [d |-> r.d, f |-> [loop_emit(r.f) EXCEPT !.skip_i = 0]]
  IN  Emitted(LeadLoop(compress_begin(x, compress_worst_size(Len(x)), Dict_new)))

\* The array a with its entries from lo to hi - 1 written, entry i with at[i].
WrRange(a, lo, hi, at) ==
  [a EXCEPT !.set = [i \in (DOMAIN @) \cup (lo..(hi - 1)) |->
                       IF lo <= i /\ i < hi THEN at[i] ELSE @[i]]]

\* From r0 = [d, f], in the skip loop after the match found at the position
\* q0 of the run, to the skip loop after the match found at q0 + 2048 * j, k
\* rounds having been made in all (k + 2 <= t, k <= WindowMax): every round in
\* between has indexed a position of the run, chained to the one before it, and
\* get_byte has read one byte more.
Forward(r0, x, t, j, k) ==
  LET k0 == r0.f.s.wind_b
      q0 == r0.f.s.wind_b - 1
      q == r0.f.s.wind_b - 1 + LookaheadMax * j
      key == Match3_make_key(r0.d.buffer, r0.f.s.wind_b - 1)
      Byte == [p \in (k0 + LookaheadMax)..(k + LookaheadMax - 1) |-> SrcAt(x, p)]
      Before == [i \in k0..(k - 1) |-> i - 1]
      Best == [i \in k0..(k - 1) |->
                 IF (i - q0) % LookaheadMax = 0 THEN RunMatchLen(x, t, i)
                 ELSE LookaheadMax + 1]
      whole == encode_lookback_match(<< >>, r0.f.dst_cap, LookaheadMax, 1, 0).dst
      last == encode_lookback_match(<< >>, r0.f.dst_cap, RunMatchLen(x, t, q), 1, 0).dst
  IN  [d |-> [match3 |->
                [head |-> Wr(r0.d.match3.head, key, k - 1),
                 chain_sz |-> Wr(r0.d.match3.chain_sz, key,
                                 Rd(r0.d.match3.chain_sz, key) + (k - k0)),
                 chain |-> WrRange(r0.d.match3.chain, k0, k, Before),
                 best_len |-> WrRange(r0.d.match3.best_len, k0, k, Best)],
              match2 |->
                [head |-> Wr(r0.d.match2.head,
                             Match2_make_key(r0.d.buffer, r0.f.s.wind_b - 1), k - 1)],
              buffer |-> WrRange(r0.d.buffer, k0 + LookaheadMax, k + LookaheadMax, Byte)],
       f |-> [r0.f EXCEPT
                !.s = StateAfter(x, k, q),
                !.dst = IF j = 0 THEN @
                        ELSE @ \o [i \in 1..(Len(whole) * (j - 1)) |->
                                     whole[((i - 1) % Len(whole)) + 1]] \o last,
                !.lit_ptr = IF j = 0 THEN @ ELSE q,
                !.lb_len = RunMatchLen(x, t, q),
                !.skip_i = k - (q + 1)]]

\* compress on RunInput(lead, t, tail) after k rounds, in the skip loop that
\* follows the j-th match of the whole lookahead after the first: [d, f].
AfterLead(lead, t, tail, j, k) ==
  Forward(RunBegun(RunInput(lead, t, tail)), RunInput(lead, t, tail), t, j, k)

\* Slices in which ten bytes occur three times before a run longer than
\* M3_MAX_OFFSET and once after it: in the lead the ten bytes (after a byte
\* 80), their first nine, and the byte 80 and the ten bytes again, which the
\* encoder passes over inside a match, so that the search at the tail walks
\* the whole chain.  The call is taken up RewriteSkips rounds before the tail.
RewriteWord == <<70, 71, 72, 73, 74, 75, 76, 77, 78, 79>>
RewriteLead ==
  <<80>> \o RewriteWord \o SubSeq(RewriteWord, 1, 9) \o <<81>> \o <<80>> \o RewriteWord
RewriteGap == 6
RewriteSkips == 2
RewriteEndLen == 3
RewriteEnds == {e \in Seqs({82, 83}, RewriteEndLen) : Len(e) > 0}
\* The same with the first eight of the ten bytes in the place of the first
\* nine.
RewriteLeadShort ==
  <<80>> \o RewriteWord \o SubSeq(RewriteWord, 1, 8) \o <<81>> \o <<80>> \o RewriteWord
RewriteLeads == {RewriteLead, RewriteLeadShort}
RewriteStarts ==
  {[lead |-> ld, t |-> M3_MAX_OFFSET + Len(ld) - 10 + RewriteGap,
    tail |-> RewriteWord \o e, j |-> 7,
    k |-> M3_MAX_OFFSET + Len(ld) - 10 + RewriteGap - RewriteSkips] :
     ld \in RewriteLeads, e \in RewriteEnds}

InitRewrite ==
  \E st \in RewriteStarts :
    LET Taken(r) == dict = r.d /\ f = r.f
    IN  /\ Taken(AfterLead(st.lead, st.t, st.tail, st.j, st.k))
        /\ data = RunInput(st.lead, st.t, st.tail)
        /\ pc = "skip"
        /\ ret = NoRet
        /\ calls = 1
        /\ stream = << >>
        /\ dec = NoDec

SpecRewrite == InitRewrite /\ [][NextWrap]_vars

\* ------------------------------------------------------------------ the lengths of the opcodes
\* The two emitters called on lengths of every family, and the decoder's
\* rounds on what they wrote.  A stream is a literal run, a match and, for the
\* family of the literal runs, a second literal run: the first run is as long
\* as the distance of the match, 1 for the match before a literal run, above
\* M2_MAX_OFFSET for an M3 match of any length and above M3_MAX_OFFSET for
\* an M4 match.

\* The excess of a length over the direct range of its opcode: the first
\* ExcessLow values, and those within LenNear of the first LenSteps multiples
\* of 255.
LenSteps == 2
LenNear == 2
ExcessLow == 20
Excesses ==
  {e \in 1..(255 * LenSteps + LenNear) :
     e <= ExcessLow \/ \E m \in 1..LenSteps : e >= 255 * m - LenNear /\ e <= 255 * m + LenNear}

\* The lengths from min on that an opcode whose direct range ends at direct is
\* given.
LengthsOf(min, direct) == (min..direct) \cup {direct + e : e \in Excesses}

\* The frame after encode_literal_run of a run of lead bytes, at the start of
\* src, and encode_lookback_match of a match of lb_len bytes at the distance
\* lead.
MatchEmitted(src, lead, lb_len) ==
  LET cap == compress_worst_size(Len(src))
      Matched(l) ==
        [NoFrame EXCEPT
           !.dst = encode_lookback_match(l.dst, cap, lb_len, lead, lead).dst,
           !.dst_cap = cap, !.lit_ptr = 0, !.lit_len = 0,
           !.lb_len = lb_len, !.lb_off = lead]
  IN  Matched(encode_literal_run(<< >>, cap, src, 0, lead))

\* The frame after the literal run of lit_len bytes that follows a match of 3
\* bytes at distance 1.
RunEmitted(src, lit_len) ==
  LET Lits(m) ==
        [m EXCEPT !.dst = encode_literal_run(m.dst, m.dst_cap, src, 4, lit_len).dst,
                  !.lit_ptr = 4, !.lit_len = lit_len]
  IN  Lits(MatchEmitted(src, 1, M2_MIN_LEN))

\* encode_literal_run on a run of more than 3 bytes after a match.
EmitRun ==
  /\ pc = "idle"
  /\ \E L \in LengthsOf(4, 18) :
       /\ data' = Run(65, 4) \o Ramp(L)
       /\ f' = RunEmitted(Run(65, 4) \o Ramp(L), L)
  /\ pc' = "literal"
  /\ UNCHANGED <<dict, ret, calls, stream, dec>>

\* encode_lookback_match on a match of lb_len bytes from min on, at the
\* distance lead, whose opcode holds lengths up to direct.
EmitMatch(lead, min, direct) ==
  /\ pc = "idle"
  /\ \E N \in LengthsOf(min, direct) :
       /\ data' = Run(65, lead + N)
       /\ f' = MatchEmitted(Run(65, lead + N), lead, N)
  /\ pc' = "match"
  /\ UNCHANGED <<dict, ret, calls, stream, dec>>

\* The first-byte encoding of decompress_stream and the first two rounds of
\* its loop on what the emitters wrote: the first literal run (which the
\* first-byte encoding reads when it is short) and the match, or the match and
\* the second literal run.  before is what the decoder has ahead of the
\* second round, out after it.
ReadLength ==
  /\ pc \in {"literal", "match"}
  /\ stream' = f.dst
  /\ LET Read(c) == dec' = [out |-> decode_inst(f.dst, c), before |-> c, by |-> pc]
     IN  Read(decode_inst(f.dst, decode_first(f.dst)))
  /\ pc' = "read"
  /\ UNCHANGED <<data, dict, f, ret, calls>>

NextLength ==
  \/ EmitRun
  \/ EmitMatch(M2_MAX_OFFSET + 1, 3, M3_MAX_LEN)
  \/ EmitMatch(M3_MAX_OFFSET + 1, 3, M4_MAX_LEN)
  \/ ReadLength

SpecLength == Init /\ [][NextLength]_vars

\* ------------------------------------------------------------------ properties

\* The decoder named by was given the stream and has returned.
Decoded(by) == pc = "decoded" /\ dec.by = by

\* C1: round trip.  compress of a non-empty slice returns Ok, and
\* decompress_stream of the bytes it returned returns Ok with the slice.
C1_RoundTrip ==
  /\ (pc = "done" /\ Len(data) > 0) => ret.kind = "Ok"
  /\ (Decoded("full") /\ Len(data) > 0) => (dec.out.kind = "Ok" /\ dec.out.result = data)

\* A run of 290 bytes, compressed to 10 bytes by one match of extended
\* length, has been decoded to itself.
C1_Witness ==
  /\ Decoded("full")
  /\ Len(data) = 290
  /\ Len(stream) = 10
  /\ dec.out.kind = "Ok"
  /\ dec.out.result = data

\* C2: cross-decoder compatibility.  The strict decoder (which rejects a
\* back-reference before the start of the output, a stream that ends before
\* the terminator and bytes after the terminator) returns Ok with the slice
\* when given what compress returned for it.
C2_CrossDecoder ==
  Decoded("unsafe") => (dec.out.kind = "Ok" /\ dec.out.result = data)

\* The strict decoder has decoded a stream with an M3 match at a distance
\* above 1 (a cycle of period 3) to the input.
C2_Witness ==
  /\ Decoded("unsafe")
  /\ data = Cycle(3, 40)
  /\ Len(stream) < Len(data)
  /\ dec.out.kind = "Ok"
  /\ dec.out.result = data
  /\ dec.out.pos = Len(stream)

\* C3: worst-case bound.  compress of n bytes returns at most
\* n + floor(n / 16) + 64 + 3 bytes, never returns OutputOverrun, and no emitter
\* writes outside the buffer of that size.
C3_WorstCase ==
  /\ pc \in {"loop", "skip", "done"} =>
       (f.err = "None" /\ ~f.fault /\ Len(f.dst) <= f.dst_cap)
  /\ (pc = "loop" \/ pc = "skip" \/ (pc = "done" /\ Len(data) > 0)) =>
       f.dst_cap = Len(data) + Len(data) \div 16 + 64 + 3
  /\ pc = "done" =>
       (ret.kind = "Ok" /\ Len(ret.bytes) <= Len(data) + Len(data) \div 16 + 64 + 3)

\* The output is longer than the input: 274 bytes with no repeat, written as
\* one literal run of extended length and the terminator.
C3_Witness ==
  /\ pc = "done"
  /\ Len(data) = 274
  /\ ret.kind = "Ok"
  /\ Len(ret.bytes) = 280

\* C4: terminator.  The last three bytes of what compress returns for a
\* non-empty slice are 0x11 0x00 0x00.
C4_Terminator ==
  (pc = "done" /\ Len(data) > 0) =>
    /\ ret.kind = "Ok"
    /\ Len(ret.bytes) >= 3
    /\ SubSeq(ret.bytes, Len(ret.bytes) - 2, Len(ret.bytes)) = <<17, 0, 0>>

\* compress of one byte has returned the literal and the terminator.
C4_Witness ==
  /\ pc = "done"
  /\ data = <<65>>
  /\ ret = [kind |-> "Ok", bytes |-> <<18, 65, 17, 0, 0>>]

\* C5: determinism and dictionary reuse.  Whatever the Dict holds from earlier
\* calls, compress_with_dict returns what compress returns for the same slice
\* with a Dict fresh from Dict::new.
C5_DictReuse ==
  pc = "done" => ret = compress(data)

\* The second call on a Dict has returned, its slice shorter than the one
\* before, the last bytes of which ("CDE") are still in the buffer.
C5_Witness ==
  /\ pc = "done"
  /\ calls = 2
  /\ data = Run(65, 6) \o <<66, 65, 65, 65, 67, 68, 69>>
  /\ ret = compress(data)
  /\ Rd(dict.buffer, 33) = 67
  /\ Rd(dict.buffer, 35) = 69

\* C6: the empty slice.  A call of compress_with_dict with the empty slice
\* returns Ok with no bytes (no terminator) and leaves the Dict as it was.
C6_EmptyInput ==
  [][(calls' = calls + 1 /\ data' = << >>) =>
       (ret' = [kind |-> "Ok", bytes |-> << >>] /\ dict' = dict /\ pc' = "done")]_vars

\* The empty slice has been compressed with a Dict that an earlier call used.
C6_Witness ==
  /\ pc = "done"
  /\ calls = 2
  /\ data = << >>
  /\ ret = [kind |-> "Ok", bytes |-> << >>]
  /\ dict # Dict_new

\* C7 as the specification states it: decompress_stream of the empty stream
\* fails with the framing error LzokayError::Error.
C7_EmptyStreamFraming ==
  (pc = "decoded" /\ dec.by # "unsafe" /\ stream = << >>) => dec.out.kind = "Error"

\* C7 as the code has it: decompress_stream of the empty stream fails with the
\* I/O error of the read of the first byte, and never returns Ok.
C7_EmptyStreamIOError ==
  (pc = "decoded" /\ dec.by # "unsafe" /\ stream = << >>) => dec.out.kind = "IOError"

\* The empty stream has been decoded, with an I/O error.
C7_Witness ==
  /\ Decoded("any")
  /\ stream = << >>
  /\ dec.out.kind = "IOError"
  /\ dec.out.pos = 0

\* C8: truncated stream.  decompress_stream of a proper prefix of what
\* compress returned for a non-empty slice fails with InputOverrun or an I/O
\* error and never returns Ok.
C8_Truncated ==
  Decoded("prefix") => dec.out.kind \in {"IOError", "InputOverrun"}

\* What compress returned has been decoded without its last byte, with an
\* I/O error.
C8_Witness ==
  /\ Decoded("prefix")
  /\ Len(data) > 0
  /\ stream = SubSeq(ret.bytes, 1, Len(ret.bytes) - 1)
  /\ dec.out.kind = "IOError"

\* The last opcode the decoder read is an M4 with distance field zero.
ZeroDistanceM4 ==
  /\ dec.out.brk
  /\ BitAnd(dec.out.inst, 240) = M4_MARKER
  /\ dec.out.dist = 0

\* C9: terminator required.  decompress_stream returns Ok only if the last
\* opcode it read is an M4 with distance field zero and decoded length 3; it
\* fails with LzokayError::Error when that M4 has another length, and with an
\* error when the stream never reaches such an M4.
C9_TerminatorRequired ==
  (pc = "decoded" /\ dec.by # "unsafe") =>
    /\ dec.out.kind = "Ok" => (ZeroDistanceM4 /\ dec.out.lblen = 3)
    /\ (ZeroDistanceM4 /\ dec.out.lblen # 3) => dec.out.kind = "Error"
    /\ ~ZeroDistanceM4 => dec.out.kind \in {"Error", "IOError"}

\* C10: InputNotConsumed.  decompress_stream of a stream with bytes after its
\* terminating M4 fails with InputNotConsumed.
C10_InputNotConsumed ==
  (Decoded("trailing") \/ (Decoded("any") /\ ZeroDistanceM4 /\ dec.out.lblen = 3
                                          /\ dec.out.pos < Len(stream))) =>
    dec.out.kind = "InputNotConsumed"


\* C11: LookbehindOverrun.  When the match opcode decompress_stream has read
\* encodes a distance larger than the number of bytes written so far, it
\* returns LookbehindOverrun (it neither copies, nor returns Ok, nor panics).
C11_LookbehindOverrun ==
  (pc = "decoded" /\ dec.by # "unsafe" /\ dec.out.dist > Len(dec.out.result)) =>
    dec.out.kind = "LookbehindOverrun"

\* C12: decode consumes exactly the stream.  When decompress_stream returns Ok
\* on what compress returned for a non-empty slice, the reader's position is
\* the length of the stream.
C12_ConsumesStream ==
  (Decoded("full") /\ Len(data) > 0 /\ dec.out.kind = "Ok") =>
    dec.out.pos = Len(stream)

\* A stream of more than one opcode (a cycle of period 2) has been decoded
\* and the reader is at its end, just after the terminator.
C12_Witness ==
  /\ Decoded("full")
  /\ data = Cycle(2, 12)
  /\ dec.out.kind = "Ok"
  /\ dec.out.pos = Len(stream)
  /\ SubSeq(stream, dec.out.pos - 2, dec.out.pos) = <<17, 0, 0>>


\* The lookahead Dict::init loads: min(n, 0x800) bytes.
Loaded(s) == IF s.src_end > LookaheadMax THEN LookaheadMax ELSE s.src_end

\* The number of get_byte calls of the call in progress (below 2 * W): while
\* input is left each call reads one byte, and afterwards each takes one from
\* wind_sz, but for the last, which finds wind_sz at 0.
Rounds(s) ==
  IF s.inp < s.src_end THEN s.inp - Loaded(s)
  ELSE IF s.wind_sz > 0 THEN s.src_end - s.wind_sz
  ELSE IF s.src_end % W = s.wind_b THEN s.src_end ELSE s.src_end + 1

\* Position p of the buffer has been written by get_byte in this call: wind_e
\* has passed it, having started at Loaded(s).
GetByteWrote(s, p) ==
  \/ Loaded(s) <= p /\ p < Loaded(s) + Rounds(s)
  \/ Loaded(s) <= p + W /\ p + W < Loaded(s) + Rounds(s)

\* C13 as the specification states it: at every point of a compression call,
\* every position p < 0x800 written during the call, by Dict::init or by
\* get_byte, has buffer[p] = buffer[p + W].
C13_TailMirror ==
  pc \in {"loop", "skip"} =>
    \A p \in 0..(LookaheadMax - 1) :
      (p < Loaded(f.s) \/ GetByteWrote(f.s, p)) =>
        Rd(dict.buffer, p) = Rd(dict.buffer, p + W)

\* C13 as the code has it: every position p < 0x800 that get_byte has written
\* during the call has buffer[p] = buffer[p + W]; Dict::init copies the first
\* bytes without their mirror.
C13_TailMirrorGetByte ==
  pc \in {"loop", "skip"} =>
    \A p \in 0..(LookaheadMax - 1) :
      GetByteWrote(f.s, p) => Rd(dict.buffer, p) = Rd(dict.buffer, p + W)

\* wind_e has passed W and get_byte has written position 0 a second time, and
\* its mirror, which Dict::init had left at 0.
C13_Witness ==
  /\ pc = "skip"
  /\ f.s.cycle1_countdown = 0
  /\ f.s.wind_e = 1
  /\ GetByteWrote(f.s, 0)
  /\ Rd(dict.buffer, 0) = 65
  /\ Rd(dict.buffer, W) = 65

\* The length of the circular region [wind_b, wind_e).
Region(s) == (s.wind_e + W - s.wind_b) % W

\* C14 as the specification states it: after Dict::init and after every
\* get_byte, wind_b and wind_e are in [0, W), wind_sz <= 0x800, and the region
\* [wind_b, wind_e) is wind_sz bytes long, also once the input is exhausted.
C14_WindowCursor ==
  pc \in {"loop", "skip"} =>
    /\ f.s.wind_b \in 0..(W - 1)
    /\ f.s.wind_e \in 0..(W - 1)
    /\ f.s.wind_sz <= LookaheadMax
    /\ Region(f.s) = f.s.wind_sz

\* C14 as the code has it: wind_b and wind_e are in [0, W), and the region
\* [wind_b, wind_e) keeps the length min(n, 0x800) that Dict::init gave it;
\* wind_sz is that length while input is left and at most that afterwards.
C14_WindowCursorLoaded ==
  pc \in {"loop", "skip"} =>
    /\ f.s.wind_b \in 0..(W - 1)
    /\ f.s.wind_e \in 0..(W - 1)
    /\ f.s.wind_sz <= LookaheadMax
    /\ Region(f.s) = Loaded(f.s)
    /\ f.s.wind_sz <= Region(f.s)
    /\ f.s.inp < f.s.src_end => f.s.wind_sz = Region(f.s)

\* The input is exhausted, wind_e has wrapped and wind_b has not, and get_byte
\* has taken wind_sz down to 2 while the region is still 0x800 long.
C14_Witness ==
  /\ pc = "skip"
  /\ f.s.inp = f.s.src_end
  /\ f.s.wind_e < f.s.wind_b
  /\ f.s.wind_b = W - WrapShort
  /\ f.s.wind_sz = 2
  /\ Region(f.s) = LookaheadMax

\* The positions the chain walk of Dict::advance visits, in order, from round
\* i_0 on (the walk of ChainWalk, with its two ways out).
RECURSIVE WalkVisits(_, _, _, _, _, _)
WalkVisits(d, s, i_0, match_count, match_pos, lb_len) ==
  IF i_0 >= match_count THEN << >>
  ELSE IF match_pos >= W THEN <<match_pos>>
  ELSE
    LET match_len == std_mismatch(d.buffer, s.wind_b, s.wind_sz, match_pos)
        better == match_len >= 2 /\ match_len > lb_len
        brk == better /\ (match_len = s.wind_sz
                          \/ match_len > Rd(d.match3.best_len, match_pos))
    IN  <<match_pos>> \o
          (IF brk THEN << >>
           ELSE WalkVisits(d, s, i_0 + 1, match_count, Rd(d.match3.chain, match_pos),
                           IF better THEN match_len ELSE lb_len))

\* The positions the search of Dict::advance visits along the chain, when it
\* is made on d and s.
SearchVisits(d, s) ==
  LET Walk(a3, m2) ==
        IF 1 < s.wind_sz /\ m2.found /\ s.wind_sz >= 3
        THEN WalkVisits([d EXCEPT !.match3 = a3.m3], s, 0, a3.match_count,
                        a3.match_pos, m2.lb_len)
        ELSE << >>
  IN  Walk(Match3_advance(d.match3, s, d.buffer),
           Match2_search(d.match2, s, 0, 1, [i \in 0..33 |-> 0], d.buffer))

\* The next step of the call is the search of Dict::advance.
SearchNext ==
  \/ pc = "loop" /\ ~LoopOver(f) /\ Rejected(f)
  \/ pc = "skip" /\ f.skip_i >= f.lb_len - 1

\* The number of positions indexed in this call whose slot get_byte has not
\* overwritten since: the last rounds, as many as fit between wind_e and
\* wind_b.
LiveCount(s) == IF Rounds(s) < W - Region(s) THEN Rounds(s) ELSE W - Region(s)

\* Position p is one of them.
Live(s, p) == p \in 0..(W - 1) /\ (s.wind_b + W - 1 - p) % W < LiveCount(s)

\* The live positions whose three bytes are not all the fill byte of the
\* buffer array.
Mixed(d, s) ==
  UNION {{p \in {q - 2, q - 1, q} : Live(s, p)} : q \in DOMAIN d.buffer.set}

\* The number of live positions whose key is key, mixed being Mixed(d, s).
LiveWithKey(d, s, mixed, key) ==
  Cardinality({p \in mixed : Match3_make_key(d.buffer, p) = key})
    + (IF key = Match3_make_key(ArrFill(d.buffer.fill), 0)
       THEN LiveCount(s) - Cardinality(mixed) ELSE 0)

\* The keys of the live positions and those chain_sz has had a count for.
KeysInUse(d, mixed) ==
  DOMAIN d.match3.chain_sz.set
    \cup {Match3_make_key(d.buffer, p) : p \in mixed}
    \cup {Match3_make_key(ArrFill(d.buffer.fill), 0)}

\* The sum of chain_sz over keys.
RECURSIVE ChainTotal(_, _)
ChainTotal(m3, keys) ==
  IF keys = {} THEN 0
  ELSE LET key == CHOOSE x \in keys : TRUE
       IN  Rd(m3.chain_sz, key) + ChainTotal(m3, keys \ {key})

\* C15: eviction discipline.  At every point of the main loop chain_sz[key]
\* is the number of live positions with that key (a position is counted out
\* under the key it was counted in with, before get_byte overwrites it, and no
\* count wraps below zero); while cycle1_countdown > 0 nothing has been
\* removed; and the chain walk of the next search visits live positions with
\* the key searched only, never 0xFFFF.
C15_Eviction ==
  pc \in {"loop", "skip"} =>
    /\ LET Counted(mixed) ==
             \A key \in KeysInUse(dict, mixed) :
               Rd(dict.match3.chain_sz, key) = LiveWithKey(dict, f.s, mixed, key)
       IN  Counted(Mixed(dict, f.s))
    /\ f.s.cycle1_countdown > 0 =>
         ChainTotal(dict.match3, DOMAIN dict.match3.chain_sz.set) = Rounds(f.s)
    /\ SearchNext =>
         LET Visited(v) ==
               \A i \in 1..Len(v) :
                 /\ v[i] # NoPos
                 /\ Live(f.s, v[i])
                 /\ Match3_make_key(dict.buffer, v[i])
                      = Match3_make_key(dict.buffer, f.s.wind_b)
         IN  Visited(SearchVisits(dict, f.s))

\* cycle1_countdown is 0, positions have been removed (all WindowMax live
\* positions are in the one chain, more having been indexed), and the search to
\* come visits the position before wind_b.
C15_Witness ==
  /\ SearchNext
  /\ f.s.cycle1_countdown = 0
  /\ Rounds(f.s) > WindowMax
  /\ Rd(dict.match3.chain_sz, Match3_make_key(dict.buffer, f.s.wind_b)) = WindowMax
  /\ SearchVisits(dict, f.s) = <<f.s.wind_b - 1>>

\* The number of rounds since position p was indexed, less one.
Age(s, p) == (s.wind_b + W - 1 - p) % W

\* The live positions whose two bytes are not both the fill byte of the
\* buffer array.
Mixed2(d, s) ==
  UNION {{p \in {q - 1, q} : Live(s, p)} : q \in DOMAIN d.buffer.set}

\* Some live position other than h, indexed within the last age rounds, has
\* the 2-byte key key.
OtherWithKey(d, s, h, age, key) ==
  LET Among(mixed) ==
        \/ \E p \in mixed : p # h /\ Age(s, p) < age /\ Match2_make_key(d.buffer, p) = key
        \/ /\ key = Match2_make_key(ArrFill(d.buffer.fill), 0)
           /\ age - Cardinality({p \in mixed : Age(s, p) < age})
                > (IF h \notin mixed /\ Live(s, h) /\ Age(s, h) < age THEN 1 ELSE 0)
  IN  Among(Mixed2(d, s))

\* Each head of Match2 is 0xFFFF or the live position with that key that was
\* added last.
Match2Heads(d, s) ==
  \A key \in DOMAIN d.match2.head.set :
    LET Newest(h) ==
          \/ h = NoPos
          \/ /\ Live(s, h)
             /\ Match2_make_key(d.buffer, h) = key
             /\ ~OtherWithKey(d, s, h, Age(s, h), key)
    IN  Newest(Rd(d.match2.head, key))

\* The next step of the call runs reset_next_input_entry.
RoundNext == pc = "skip" \/ SearchNext

\* The Match2::remove of the next round, if it clears the head, removes the
\* only live position with its key.
Match2RemoveLast(d, s) ==
  (RoundNext /\ s.cycle1_countdown = 0) =>
    LET Last(key) ==
          Rd(d.match2.head, key) = s.wind_e =>
            ~OtherWithKey(d, s, s.wind_e, LiveCount(s), key)
    IN  Last(Match2_make_key(d.buffer, s.wind_e))

\* A head that a step has set to 0xFFFF held the position that step removed.
Match2Clears ==
  pc \in {"loop", "skip"} =>
    \A key \in DOMAIN dict.match2.head.set :
      (Rd(dict.match2.head, key) # NoPos /\ Rd(dict.match2.head, key)' = NoPos) =>
        /\ f.s.cycle1_countdown = 0
        /\ Rd(dict.match2.head, key) = f.s.wind_e
        /\ key = Match2_make_key(dict.buffer, f.s.wind_e)

\* C16: Match2 index invariant.  At every point of the main loop each head[k]
\* is 0xFFFF or the most recently added live position whose 2-byte key is k;
\* Match2::remove clears head[key(pos)] only when it holds pos, and then no
\* other live position has that key.
C16_Match2Index ==
  /\ [](pc \in {"loop", "skip"} =>
          Match2Heads(dict, f.s) /\ Match2RemoveLast(dict, f.s))
  /\ [][Match2Clears]_vars

\* Position 0, the only one with its key, has been removed and its head
\* cleared, while the head of the key of the run holds the position before
\* wind_b.
C16_Witness ==
  /\ pc = "skip"
  /\ f.s.cycle1_countdown = 0
  /\ data[1] # data[2]
  /\ LET Cleared(key) ==
           key \in DOMAIN dict.match2.head.set /\ Rd(dict.match2.head, key) = NoPos
     IN  Cleared(data[1] + 256 * data[2])
  /\ Rd(dict.match2.head, Match2_make_key(dict.buffer, f.s.wind_b - 1)) = f.s.wind_b - 1

\* The offset of the first of the positions v, in order, whose match with the
\* lookahead at wind_b has a length in fits, and 0 when there is none.
FirstOffset(d, s, v, fits) ==
  LET hits == {i \in 1..Len(v) : std_mismatch(d.buffer, s.wind_b, s.wind_sz, v[i]) \in fits}
  IN  IF hits = {} THEN 0
      ELSE pos2off(s, v[CHOOSE i \in hits : \A j \in hits : i <= j])

\* The step is a search of Dict::advance with more than one byte of lookahead
\* (the branch that records best_off).
SearchStep == SearchNext /\ f.s.wind_sz > 1 /\ f' # f

\* C17 as the specification states it: after a search, for each L in 2..33
\* best_off[L] is the offset of the first position visited along the chain
\* whose match has length >= L, and 0 exactly when there is none.
C17_BestOffAtLeast ==
  [][SearchStep =>
       \A L \in 2..33 :
         f.best_off[L]' = FirstOffset(dict, f.s, SearchVisits(dict, f.s), L..LookaheadMax)]_vars

\* C17 as the code has it: after a search, best_off[2] is the offset of the
\* head of Match2 for the two bytes at wind_b, and for each L in 3..33
\* best_off[L] is the offset of the first position visited along the chain
\* whose match has length exactly L; all are 0 when Match2 has no head for
\* those two bytes, and best_off[L] is 0 when no visited position matches with
\* length exactly L.
C17_BestOffExact ==
  [][SearchStep =>
       LET Recorded(head2) ==
             \A L \in 2..33 :
               f.best_off[L]' =
                 IF head2 = NoPos THEN 0
                 ELSE IF L = 2 THEN pos2off(f.s, head2)
                 ELSE FirstOffset(dict, f.s, SearchVisits(dict, f.s), {L})
       IN  Recorded(Rd(dict.match2.head, Match2_make_key(dict.buffer, f.s.wind_b)))]_vars

\* A search has found a match of length 4 at distance 3 and no other:
\* best_off[4] is 3 and best_off[3] is 0, best_off[2] being that of Match2.
C17_Witness ==
  /\ pc = "loop"
  /\ f.lb_len = 4
  /\ f.best_off[4] = 3
  /\ f.best_off[3] = 0
  /\ f.best_off[2] # 0

\* C18: the rewriter picks a shorter offset.  Whenever find_better_match
\* changes the (lb_len, lb_off) that the search of Dict::advance produced, the
\* new lb_len is smaller and the new lb_off is nonzero and strictly smaller
\* than the lb_off it replaces.
C18_RewriterShorter ==
  (pc = "loop" /\ ~LoopOver(f) /\ ~Rejected(f)) =>
    LET Shorter(b) ==
          (b.lb_len # f.lb_len \/ b.lb_off # f.lb_off) =>
            /\ b.lb_len < f.lb_len
            /\ b.lb_off # 0
            /\ b.lb_off < f.lb_off
    IN  Shorter(find_better_match(f.best_off, f.lb_len, f.lb_off))

\* The step emits a match of length 2 (the round of the main loop that keeps
\* the match, the rewriter leaving lb_len at 2).
EmitsLength2 == pc = "loop" /\ pc' = "skip" /\ f.lb_len' = 2

\* C19 as the specification states it: the encoder emits a match of length 2
\* only after a literal run of length L >= 4.
C19_M1AfterLongRun == [][EmitsLength2 => f.lit_len >= 4]_vars

\* C19 as the code has it: the encoder emits a match of length 2 only after a
\* literal run of length 1 <= L <= 3, at an offset of at most M1_MAX_OFFSET and
\* not as the first opcode of the stream.
C19_M1AfterShortRun ==
  [][EmitsLength2 =>
       /\ f.lit_len \in 1..3
       /\ f.lb_off <= M1_MAX_OFFSET
       /\ Len(f.dst) > 0]_vars

\* A match of length 2 has been emitted after a literal run of 1 to 3 bytes:
\* the stream ends with its two bytes, the offset less one in bits 2..3 of the
\* first and in the second.
C19_Witness ==
  /\ pc = "skip"
  /\ f.lb_len = 2
  /\ f.lit_len = 0
  /\ f.s.wind_b - 1 - f.lit_ptr \in 1..3
  /\ Len(f.dst) >= 2
  /\ SubSeq(f.dst, Len(f.dst) - 1, Len(f.dst))
       = <<((f.lb_off - 1) % 4) * 4, (f.lb_off - 1) \div 4>>

\* The step emits a literal run of more than 18 bytes that is not the first
\* opcode of the stream in its short form (17 + L in one byte).
EmitsLongRun ==
  /\ pc = "loop"
  /\ pc' \in {"skip", "done"}
  /\ f.err' = "None" /\ ~f.fault'
  /\ f.lit_len > 18
  /\ ~(Len(f.dst) = 0 /\ f.lit_len <= 238)

\* The step has written after dst a zero byte, n more zero bytes, the byte
\* last and then the literals of the run.
RunWritten(n, last) ==
  /\ Len(f.dst') >= Len(f.dst) + n + 2 + f.lit_len
  /\ SubSeq(f.dst', Len(f.dst) + 1, Len(f.dst) + n + 2)
       = <<0>> \o [i \in 1..n |-> 0] \o <<last>>
  /\ SubSeq(f.dst', Len(f.dst) + n + 3, Len(f.dst) + n + 2 + f.lit_len)
       = SubSeq(data, f.lit_ptr + 1, f.lit_ptr + f.lit_len)

\* C20 as the specification states it: for a literal run of length L > 18
\* that is not the initial opcode the encoder writes a zero byte, then
\* (L - 18) \div 255 zero bytes, then (L - 18) % 255, which is never zero.
C20_LengthBytesFloor ==
  [][EmitsLongRun =>
       /\ RunWritten((f.lit_len - 18) \div 255, (f.lit_len - 18) % 255)
       /\ (f.lit_len - 18) % 255 # 0]_vars

\* C20 as the code has it: the encoder writes a zero byte, then
\* (L - 19) \div 255 zero bytes, then (L - 19) % 255 + 1, a byte from 1 to 255:
\* when L - 18 is a multiple of 255 the last byte is 255 and the zero bytes are
\* one fewer than (L - 18) \div 255.
C20_LengthBytes ==
  [][EmitsLongRun =>
       RunWritten((f.lit_len - 19) \div 255, ((f.lit_len - 19) % 255) + 1)]_vars

\* A literal run of 18 + 255 bytes has been written after a match: a zero
\* byte, the byte 255 and the literals.
C20_Witness ==
  /\ pc = "done"
  /\ ret.kind = "Ok"
  /\ data = Run(200, 4) \o Ramp(18 + 255)
  /\ \E i \in 2..Len(ret.bytes) :
       /\ i + 1 + 18 + 255 <= Len(ret.bytes)
       /\ SubSeq(ret.bytes, i, i + 1) = <<0, 255>>
       /\ SubSeq(ret.bytes, i + 2, i + 1 + 18 + 255) = Ramp(18 + 255)

\* The decoder has read, as the last of its rounds, the opcode of the family
\* named by that the emitter wrote last.
LengthRead(by) == pc = "read" /\ dec.by = by /\ dec.out.kind = "Run"

\* C21: the length the decoder takes from an opcode, its zero bytes and its
\* last byte is the length the encoder was given: for a literal run of 4
\* bytes or more the bytes the round appends, for an M3 and an M4 match of 3
\* bytes or more the length of the copy, multiples of 255 above the direct
\* range included.
C21_LengthRoundTrip ==
  /\ pc = "read" => dec.out.kind = "Run"
  /\ LengthRead("literal") =>
       /\ Len(dec.out.result) - Len(dec.before.result) = f.lit_len
       /\ dec.out.result = data
  /\ LengthRead("match") =>
       /\ dec.out.lblen = f.lb_len
       /\ dec.out.dist = f.lb_off
       /\ dec.out.result = data

\* An M3 match whose length is 255 above the direct range of its opcode has
\* been written, as the marker, a byte 255 and the distance, and read.
C21_Witness ==
  /\ LengthRead("match")
  /\ f.lb_off = M2_MAX_OFFSET + 1
  /\ f.lb_len = M3_MAX_LEN + 255
  /\ SubSeq(stream, Len(stream) - 3, Len(stream) - 2) = <<M3_MARKER, 255>>
  /\ dec.out.lblen = M3_MAX_LEN + 255

\* The step emits a literal run of at most 3 bytes that is not the first
\* opcode of the stream: encode_literal_run is called with outp # dst, by the
\* main loop before a match or after the loop.
EmitsShortRun ==
  /\ pc = "loop"
  /\ pc' \in {"skip", "done"}
  /\ f.err = "None" /\ ~f.fault
  /\ f.lit_len <= 3
  /\ Len(f.dst) > 0

\* What the decoder has at the end of the bytes by: the opcodes of by read,
\* it stops for the lack of a next one.
OpcodesOf(by) == DecodeLoop(by, decode_first(by))

\* The last opcode of by is a match after which no literal follows: the
\* decoder has copied a match, is at the end of by and in state 0.
EndsWithMatch(by) ==
  LET Ended(c) == /\ c.kind = "IOError" /\ c.pos = Len(by) /\ c.state = 0
                  /\ c.lblen >= 2 /\ c.dist >= 1
  IN  Ended(OpcodesOf(by))

\* The bytes that follow the literal run which the step emits: the match of
\* the main loop, or the terminator.
AfterShortRun ==
  IF pc' = "skip"
  THEN encode_lookback_match(<< >>, f.dst_cap, f.lb_len', f.lb_off', f.lit_len).dst
  ELSE <<U8(BitOr(M4_MARKER, 1)), 0, 0>>

\* C22: whenever a literal run of 0 to 3 bytes is emitted other than as the
\* first opcode, two bytes or more are written already, the last opcode
\* written is a match whose second-to-last byte has its two low bits 0, the
\* step sets those two bits to the length, changes no other byte written,
\* and writes the literals and the next opcode right after them, with no
\* length byte.
C22_ShortLiteralCarry ==
  [][EmitsShortRun =>
       LET n == Len(f.dst)
       IN  /\ n >= 2
           /\ f.err' = "None" /\ ~f.fault'
           /\ EndsWithMatch(f.dst)
           /\ BitAnd(f.dst[n - 1], 3) = 0
           /\ f.dst' = [f.dst EXCEPT ![n - 1] = @ + f.lit_len]
                         \o SubSeq(data, LitPtr(f) + 1, LitPtr(f) + f.lit_len)
                         \o AfterShortRun]_vars

\* A match of 3 bytes at distance 1, then a literal run of 3 bytes carried
\* in the first byte of the match (64 + 3), then the terminator.
C22_Witness ==
  /\ pc = "done"
  /\ data = Run(200, 4) \o Ramp(3)
  /\ ret.kind = "Ok"
  /\ ret.bytes = <<18, 200, 64 + 3, 0, 0, 1, 2, 17, 0, 0>>

\* No two bytes in a row occur at two positions of x.
NoPairTwice(x) ==
  \A i, j \in 1..(Len(x) - 1) : i # j => <<x[i], x[i + 1]>> # <<x[j], x[j + 1]>>

\* C23: compress of a slice of 1 to 238 bytes in which no two bytes in a row
\* occur at two positions returns the byte 17 + n, the n bytes of the slice
\* and 0x11 0x00 0x00.
C23_SingleLiteralRun ==
  pc = "done" /\ Len(data) >= 1 /\ Len(data) <= 238 /\ NoPairTwice(data)
    => /\ ret.kind = "Ok"
       /\ ret.bytes = <<17 + Len(data)>> \o data \o <<17, 0, 0>>

\* compress has returned one literal run of 238 bytes, behind the byte 255.
C23_Witness ==
  /\ pc = "done"
  /\ data = Ramp(238)
  /\ NoPairTwice(data)
  /\ ret.kind = "Ok"
  /\ ret.bytes = <<255>> \o Ramp(238) \o <<17, 0, 0>>

\* The len bytes of x from the 0-based position i on are there, and occur
\* off bytes before as well, off being at most i.
TrueMatch(x, i, len, off) ==
  /\ 1 <= off /\ off <= i
  /\ 2 <= len /\ len <= Len(x) - i
  /\ \A k \in 0..(len - 1) : x[i + k + 1] = x[i - off + k + 1]

\* The main loop is about to emit the match it holds: the rejection rule keeps
\* it.
MatchKept == pc = "loop" /\ ~LoopOver(f) /\ ~Rejected(f)

\* C24: the length and the offset that find_better_match leaves for
\* encode_lookback_match are those of bytes of the slice that occur again:
\* with i the bytes of the slice covered by the literals and the matches
\* emitted before, pending literals included, 1 <= lb_off <= i,
\* 2 <= lb_len <= n - i and x[i + k] = x[i - lb_off + k] for every k below
\* lb_len.
C24_TrueBackReference ==
  MatchKept =>
    LET Handed(b) == TrueMatch(data, LitPtr(f) + f.lit_len, b.lb_len, b.lb_off)
    IN  Handed(find_better_match(f.best_off, f.lb_len, f.lb_off))

\* A match that ends with the slice is about to be emitted: 33 bytes at
\* distance 1, after one literal, the zero padding behind them being equal to
\* none of them.
C24_Witness ==
  /\ MatchKept
  /\ data = Run(65, 34)
  /\ f.lit_len = 1
  /\ f.lb_len = 33 /\ f.lb_off = 1
  /\ TrueMatch(data, 1, f.lb_len, f.lb_off)

\* The distance field that the decoder reads in the M4 opcode that by ends
\* with: the bit 8 of its first byte, and the two bytes after the length
\* without their two low bits.
M4Field(by) ==
  BitAnd(by[1], 8) * 2048 + (by[Len(by) - 1] + 256 * by[Len(by)]) \div 4

\* The match b = [lb_len, lb_off] is one that encode_lookback_match writes as
\* an M4 opcode.
InM4Family(b) == b.lb_len # 2 /\ b.lb_off > M3_MAX_OFFSET

\* C25: a match that the main loop hands to encode_lookback_match and that is
\* written as an M4 opcode has 0x4000 < lb_off <= 0xBFFF, and the distance
\* field written for it is lb_off - 0x4000, between 1 and 0x7FFF; in what
\* compress returns, the first M4 opcode whose distance field is zero is the
\* terminator, at its end.
C25_M4Distance ==
  /\ MatchKept =>
       LET Written(b, by) ==
             InM4Family(b) =>
               /\ M3_MAX_OFFSET < b.lb_off /\ b.lb_off <= WindowMax
               /\ M4Field(by) = b.lb_off - M3_MAX_OFFSET
               /\ 1 <= M4Field(by) /\ M4Field(by) <= 32767
           Handed(b) ==
             Written(b, encode_lookback_match(<< >>, f.dst_cap, b.lb_len, b.lb_off,
                                              f.lit_len).dst)
       IN  Handed(find_better_match(f.best_off, f.lb_len, f.lb_off))
  /\ pc = "done" /\ ret.kind = "Ok" =>
       LET Last(c) == c.kind = "Break" /\ c.pos = Len(ret.bytes) /\ c.lblen = 3
       IN  Last(OpcodesOf(ret.bytes))

\* A match at the distance WindowMax has been emitted, of the 3 bytes at the
\* start of the slice, with all 15 bits of the distance field set.
C25_Witness ==
  /\ pc = "skip"
  /\ f.skip_i = 0
  /\ f.lb_len = 3 /\ f.lb_off = WindowMax
  /\ InM4Family(f)
  /\ Len(data) = WindowMax + 4
  /\ SubSeq(f.dst, Len(f.dst) - 2, Len(f.dst)) = <<16 + 8 + 1, 252, 255>>
  /\ M4Field(SubSeq(f.dst, Len(f.dst) - 2, Len(f.dst))) = 32767

\* ------------------------------------------------------------------ the end of the main loop
\* One call of compress on a non-empty slice, alone: the call is sequential
\* code, so whatever step of it is enabled is taken in the end.
CallRuns ==
  \/ LoopLiteral
  \/ LoopEmit
  \/ SkipAdvance
  \/ SkipDone
  \/ CompressEnd

\* The slices of the call: the short ones over three bytes, a run, a cycle
\* and a ramp.
CallInputs == Seqs(Alphabet3, MaxLen3) \cup {Run(65, 40), Cycle(2, 40), Ramp(40)}

NextCall ==
  \/ CompressBegin(CallInputs, 1)
  \/ CallRuns

\* The states in which LoopLiteral, SkipAdvance and SkipDone are enabled: each
\* of these steps changes f wherever it is enabled.
LiteralDue == pc = "loop" /\ ~LoopOver(f) /\ Rejected(f)
SkipStepDue == pc = "skip" /\ f.skip_i < f.lb_len - 1
SkipEndDue == pc = "skip" /\ f.skip_i >= f.lb_len - 1

\* Weak fairness of every step of the call; for the three steps that run
\* Dict::advance it is written out, with the states above for ENABLED.
CallFair ==
  /\ WF_vars(LoopEmit)
  /\ WF_vars(CompressEnd)
  /\ ([]<>(~LiteralDue) \/ []<><<LoopLiteral>>_vars)
  /\ ([]<>(~SkipStepDue) \/ []<><<SkipAdvance>>_vars)
  /\ ([]<>(~SkipEndDue) \/ []<><<SkipDone>>_vars)

SpecCall == Init /\ [][NextCall]_vars /\ CallFair

\* The number of bytes that the opcodes of by stand for: the length of what
\* the decoder's loop has put out when it has read them, a literal run adding
\* its length and a match its length.
Covered(by) == Len(OpcodesOf(by).result)

\* The main loop has found buf_sz = 0 at its test.
LoopEnded == pc = "loop" /\ f.err = "None" /\ ~f.fault /\ f.s.buf_sz = 0

\* C26: the main loop of compress on a non-empty slice of n bytes comes to
\* its end, advance having returned buf_sz = 0; the lengths of the literal
\* runs and of the matches emitted by then, together with the length of the
\* last literal run, add up to n; and at every test of the loop the pending
\* literals are the bytes of the slice from lit_ptr on, lit_len of them, up to
\* bufp, all bytes before them being covered by what has been emitted.
C26_InputCoverage ==
  /\ [](pc = "loop" =>
          /\ LitPtr(f) + f.lit_len = f.s.bufp
          /\ f.s.bufp <= Len(data)
          /\ Covered(f.dst) = LitPtr(f))
  /\ [](pc = "skip" => f.lit_len = 0)
  /\ [](LoopEnded => Covered(f.dst) + f.lit_len = Len(data))
  /\ (pc = "loop" ~> LoopEnded)

\* The loop has ended on a slice of 5 bytes: a literal and a match of 3 bytes
\* have been emitted, and the last byte is the pending literal run.
C26_Witness ==
  /\ LoopEnded
  /\ data = <<65, 65, 65, 65, 66>>
  /\ Covered(f.dst) = 4
  /\ f.lit_len = 1 /\ f.lit_ptr = 4
  /\ f.s.bufp = 5

\* find_better_match takes its second branch that decrements (`lb_len -= 2`):
\* it has not returned at once, its first branch is not taken, and the
\* condition of the second holds.
SecondDecrement(best_off, lb_len, lb_off) ==
  /\ ~(lb_len <= M2_MIN_LEN \/ lb_off <= M2_MAX_OFFSET)
  /\ ~(/\ lb_off > M2_MAX_OFFSET
       /\ lb_len >= M2_MIN_LEN + 1 /\ lb_len <= M2_MAX_LEN + 1
       /\ best_off[lb_len - 1] # 0 /\ best_off[lb_len - 1] <= M2_MAX_OFFSET)
  /\ lb_off > M3_MAX_OFFSET
  /\ lb_len >= M4_MAX_LEN + 1 /\ lb_len <= M2_MAX_LEN + 2
  /\ best_off[lb_len - 2] # 0
  /\ best_off[lb_len] <= M2_MAX_OFFSET

\* C27: when advance has returned a match of 2 to 33 bytes, best_off[lb_len]
\* is lb_off; and when the main loop calls find_better_match on what advance
\* returned, the branch that takes 2 from lb_len (which needs
\* lb_off > 0x4000, lb_len = 10, best_off[8] # 0 and best_off[10] <= 0x800) is
\* not taken.
C27_ChosenIsRecorded ==
  /\ pc = "loop" /\ ~f.fault /\ f.lb_len >= 2 /\ f.lb_len <= 33
       => f.best_off[f.lb_len] = f.lb_off
  /\ MatchKept => ~SecondDecrement(f.best_off, f.lb_len, f.lb_off)

\* advance has returned a match of 10 bytes at a distance above 0x4000, with
\* a match of exactly 8 bytes recorded: the second branch is not taken, for
\* best_off[10], the distance of the match, is not within 0x800, and
\* find_better_match leaves the match as it is.
C27_Witness ==
  /\ MatchKept
  /\ f.lb_len = M4_MAX_LEN + 1 /\ f.lb_off = M3_MAX_OFFSET + RewriteGap
  /\ f.best_off[f.lb_len] = f.lb_off
  /\ f.best_off[8] = M3_MAX_OFFSET + RewriteGap + 10
  /\ f.best_off[9] = 0
  /\ ~SecondDecrement(f.best_off, f.lb_len, f.lb_off)
  /\ find_better_match(f.best_off, f.lb_len, f.lb_off) = [lb_len |-> f.lb_len, lb_off |-> f.lb_off]

====
